---- MODULE Spec2Model ----
(***************************************************************************)
(* Planning and dispatch engine of helios: the DwellController, the        *)
(* Planner (_decide_action, build_plan), Plan.slot_for and the executors   *)
(* driven by the control job.                                              *)
(*                                                                         *)
(* Conventions.  An Optional[...] value of the source is a sequence: None  *)
(* is <<>> and a present value v is <<v>>.  Times are whole seconds.       *)
(* Prices, fees and the hysteresis are integers in one common price unit;  *)
(* multipliers are whole numbers.  Watts are integers.                     *)
(***************************************************************************)
EXTENDS Integers, Sequences, FiniteSets, TLC

VARIABLES
    now,        \* the clock read by the caller (datetime.now)
    dwell,      \* the DwellController object (state.dwell)
    sc,         \* last should_change call of the dwell specification: arguments and result
    na,         \* last note_action call of the dwell specification: arguments, object before
    dIn,        \* arguments of the _decide_action call: settings, price_mid, pivot
    dOut,       \* result of the _decide_action call, None before the call
    pIn,        \* arguments of the build_plan call: settings, now, price_series
    bp,         \* the running build_plan call: t, end, pivot and the slots so far
    plan,       \* the Plan returned by build_plan, None before the return
    q,          \* last Plan.slot_for call: argument, plan before the call, result
    settings,   \* state.settings, also held by the executor (DbusExecutor.settings)
    executor,   \* state.executor: its class and DbusExecutor._last_setpoint_w
    latest_plan,        \* state.latest_plan
    automation_paused,  \* state.automation_paused
    last_control_at,    \* state.last_control_at
    actuator,   \* value of the bus item /Settings/CGwacs/AcPowerSetPoint
    applied,    \* the value the program last wrote to the bus item, None before any write
    call,       \* what the last control job run did: outcome, bus writes, failure,
                \* and how often it incremented each counter of metrics.py
    lock,       \* state.lock: the thread that holds it, None when free
    pc,         \* per thread: the operation it runs and the step it is at
    local,      \* per thread: the local variables of the running operation
    cfg,        \* last PUT /config: the settings (and the update or the job store) it
                \* found, and whether the handler returned or raised
    app,        \* how far the application is: before on_startup, starting, serving,
                \* stopped (on_shutdown has called shutdown) or failed (on_startup raised)
    sched,      \* state.scheduler: the BackgroundScheduler's state and job store, the
                \* add_job calls _schedule_jobs has still to make, the ids it skipped
    inflight,   \* the executions of job callbacks in flight: job, who started it
    price_provider,     \* state.price_provider: the instance, its fields and its cache
    planner,    \* state.planner: the settings object the Planner was constructed with
    last_recalc_at,     \* state.last_recalc_at
    rj          \* the _recalc_plan call that runs or ran last: its step, its locals,
                \* what it found before it started and how it ended

vars == <<now, dwell, sc, na, dIn, dOut, pIn, bp, plan, q, settings, executor, latest_plan,
          automation_paused, last_control_at, actuator, applied, call, lock, pc, local,
          cfg, app, sched, inflight, price_provider, planner, last_recalc_at, rj>>

\* ---------------------------------------------------------------- bounds
MaxTime == 4
MaxDwell == 2
MaxHorizonHours == 2
MaxSeriesLen == 2
MaxRetries == 1
MaxReassert == 1
MaxSlots == 2
MaxLockTime == 2
MaxRequests == 2
MaxProviders == 3

\* ------------------------------------------------------ Optional values
None == <<>>
Some(v) == <<v>>
Val(x) == x[1]

Min(a, b) == IF a <= b THEN a ELSE b
Max(a, b) == IF a >= b THEN a ELSE b
Abs(a) == IF a >= 0 THEN a ELSE 0 - a

\* ---------------------------------------------------------------- models.py
CHARGE_FROM_GRID == "charge_from_grid"
DISCHARGE_TO_LOAD == "discharge_to_load"
EXPORT_TO_GRID == "export_to_grid"
IDLE == "idle"
Action == {CHARGE_FROM_GRID, DISCHARGE_TO_LOAD, EXPORT_TO_GRID, IDLE}

\* ---------------------------------------------------------------- dwell.py
\* A DwellController as constructed by the dataclass: per_action_dwell_seconds
\* is a function from the actions that have an entry to seconds (None and the
\* empty dict behave alike in should_change and are both the empty function).
DwellController(minimum, per_action, last_action, last_action_at) ==
    [minimum_dwell_seconds |-> minimum,
     per_action_dwell_seconds |-> per_action,
     last_action |-> last_action,
     last_action_at |-> last_action_at]

\* The dwell requirement of the previous action (dwell.py lines 21-26).
required(d) ==
    IF Val(d.last_action) \in DOMAIN d.per_action_dwell_seconds
    THEN Max(0, d.per_action_dwell_seconds[Val(d.last_action)])
    ELSE d.minimum_dwell_seconds

should_change_mutant_strict(d, new_action, t) ==
    IF d.last_action = None \/ d.last_action = Some(new_action) THEN TRUE
    ELSE IF required(d) <= 0 THEN TRUE
    ELSE IF d.last_action_at = None THEN TRUE
    ELSE t - Val(d.last_action_at) > required(d)
should_change(d, new_action, t) ==
    IF d.last_action = None \/ d.last_action = Some(new_action) THEN TRUE
    ELSE IF required(d) <= 0 THEN TRUE
    ELSE IF d.last_action_at = None THEN TRUE
    ELSE t - Val(d.last_action_at) >= required(d)

note_action_mutant_always_stamp(d, action, t) ==
    [d EXCEPT !.last_action = Some(action), !.last_action_at = Some(t)]
note_action(d, action, t) ==
    IF d.last_action # Some(action)
    THEN [d EXCEPT !.last_action = Some(action), !.last_action_at = Some(t)]
    ELSE d

\* ---------------------------------------------------------------- planner.py
\* `x or 0` / `x or y` on an Optional[int]: None and 0 are both falsy.
PyOr(x, default) == IF x = None \/ Val(x) = 0 THEN default ELSE Val(x)

buy_price_of_mutant_no_fee(s, price_mid) == price_mid * s.buy_price_multiplier
buy_price_of(s, price_mid) ==
    price_mid * s.buy_price_multiplier + s.buy_price_fixed_fee
sell_price_of(s, price_mid) ==
    price_mid * s.sell_price_multiplier - s.sell_price_fixed_deduction

decide_action_mutant_no_soc(s, price_mid, pivot) ==
    LET import_limit == PyOr(s.grid_import_limit_w, 0)
        export_limit == PyOr(s.grid_export_limit_w, 0)
        battery_charge_limit == PyOr(s.battery_charge_limit_w, import_limit)
        battery_discharge_limit == PyOr(s.battery_discharge_limit_w, export_limit)
        cheap == buy_price_of(s, price_mid) <= pivot - s.price_hysteresis
        expensive == sell_price_of(s, price_mid) >= pivot + s.price_hysteresis
    IN  IF cheap /\ import_limit > 0
        THEN [action |-> CHARGE_FROM_GRID,
              setpoint |-> Min(import_limit, battery_charge_limit)]
        ELSE IF s.grid_sell_enabled /\ expensive /\ export_limit > 0
        THEN [action |-> EXPORT_TO_GRID,
              setpoint |-> 0 - Min(export_limit, battery_discharge_limit)]
        ELSE [action |-> IDLE, setpoint |-> 0]
decide_action(s, price_mid, pivot) ==
    LET import_limit == PyOr(s.grid_import_limit_w, 0)
        export_limit == PyOr(s.grid_export_limit_w, 0)
        battery_charge_limit == PyOr(s.battery_charge_limit_w, import_limit)
        battery_discharge_limit == PyOr(s.battery_discharge_limit_w, export_limit)
        soc == s.assumed_current_soc_percent
        cheap == buy_price_of(s, price_mid) <= pivot - s.price_hysteresis
        expensive == sell_price_of(s, price_mid) >= pivot + s.price_hysteresis
    IN  IF cheap /\ import_limit > 0
        THEN IF soc # None /\ Val(soc) >= s.max_soc_percent
             THEN [action |-> IDLE, setpoint |-> 0]
             ELSE [action |-> CHARGE_FROM_GRID,
                   setpoint |-> Min(import_limit, battery_charge_limit)]
        ELSE IF s.grid_sell_enabled /\ expensive /\ export_limit > 0
        THEN IF soc # None /\ Val(soc) <= s.reserve_soc_percent
             THEN [action |-> IDLE, setpoint |-> 0]
             ELSE [action |-> EXPORT_TO_GRID,
                   setpoint |-> 0 - Min(export_limit, battery_discharge_limit)]
        ELSE [action |-> IDLE, setpoint |-> 0]

\* ------------------------------------------------------ planner.py, models.py
SecondsPerHour == 3600

\* now.replace(minute=0, second=0, microsecond=0)
hour_start(t) == t - (t % SecondsPerHour)

\* Start of the horizon (planner.py lines 29-36).
plan_start(s, t) ==
    IF SecondsPerHour % s.planning_window_seconds = 0 THEN hour_start(t) ELSE t
plan_end(s, t) == plan_start(s, t) + SecondsPerHour * s.planning_horizon_hours

\* The k-th smallest element of a non-empty sequence of numbers.
KthSmallest(prices, k) ==
    CHOOSE x \in {prices[i] : i \in DOMAIN prices} :
        /\ Cardinality({i \in DOMAIN prices : prices[i] < x}) < k
        /\ Cardinality({i \in DOMAIN prices : prices[i] <= x}) >= k

\* statistics.median: the middle element, or the mean of the two middle
\* elements (prices are drawn even, so the mean is exact).
median(prices) ==
    LET n == Len(prices)
    IN  IF n % 2 = 1 THEN KthSmallest(prices, (n \div 2) + 1)
        ELSE (KthSmallest(prices, n \div 2) + KthSmallest(prices, (n \div 2) + 1)) \div 2

\* Planner._price_at at the midpoint of [t, slice_end): the first entry of the
\* series with the least distance to the midpoint, None on an empty series.
\* Distances are doubled so that the midpoint t + (slice_end - t)/2 is exact.
price_at(series, t, slice_end) ==
    IF Len(series) = 0 THEN None
    ELSE LET dist(i) == Abs(2 * series[i][1] - (t + slice_end))
             first == CHOOSE i \in DOMAIN series :
                          /\ \A j \in DOMAIN series : dist(i) <= dist(j)
                          /\ \A j \in DOMAIN series : j < i => dist(j) > dist(i)
         IN  Some(series[first][2])

\* `self._price_at(price_series, midpoint) or pivot`: None and 0.0 are falsy.
price_mid_of(series, t, slice_end, pivot) ==
    LET p == price_at(series, t, slice_end)
    IN  IF p = None \/ Val(p) = 0 THEN pivot ELSE Val(p)

\* One iteration of the while loop of build_plan (planner.py lines 43-68).
\* The slot keeps price_mid and pivot, which its reason string is built from;
\* the energy and cost annotations are not modelled.
make_slot_mutant_abs_setpoint(s, series, pivot, t, slice_end) ==
    LET price_mid == price_mid_of(series, t, slice_end, pivot)
        d == decide_action(s, price_mid, pivot)
    IN  [start |-> t, end |-> slice_end, action |-> d.action,
         target_grid_setpoint_w |-> Abs(d.setpoint),
         price_mid |-> price_mid, pivot |-> pivot]
make_slot(s, series, pivot, t, slice_end) ==
    LET price_mid == price_mid_of(series, t, slice_end, pivot)
        d == decide_action(s, price_mid, pivot)
    IN  [start |-> t, end |-> slice_end, action |-> d.action,
         target_grid_setpoint_w |-> d.setpoint,
         price_mid |-> price_mid, pivot |-> pivot]

slice_end_mutant_no_clamp(s, t, end) == t + s.planning_window_seconds
slice_end_of(s, t, end) == Min(t + s.planning_window_seconds, end)

\* Plan.slot_for: the first slot with start <= at < end, None when there is none.
slot_for_mutant_closed_end(p, at) ==
    LET hits == {i \in DOMAIN p.slots : p.slots[i].start <= at /\ at <= p.slots[i].end}
    IN  IF hits = {} THEN None
        ELSE Some(p.slots[CHOOSE i \in hits : \A j \in hits : i <= j])
slot_for(p, at) ==
    LET hits == {i \in DOMAIN p.slots : p.slots[i].start <= at /\ at < p.slots[i].end}
    IN  IF hits = {} THEN None
        ELSE Some(p.slots[CHOOSE i \in hits : \A j \in hits : i <= j])

\* ---------------------------------------------------------------- executor.py
\* Clamp by the grid limits, then by the battery limits (executor.py lines 67-76).
clamp_target_mutant_grid_only(s, target) ==
    LET t1 == IF s.grid_import_limit_w # None
              THEN Min(target, Val(s.grid_import_limit_w)) ELSE target
    IN  IF s.grid_export_limit_w # None
        THEN Max(t1, 0 - Val(s.grid_export_limit_w)) ELSE t1
clamp_target(s, target) ==
    LET t1 == IF s.grid_import_limit_w # None
              THEN Min(target, Val(s.grid_import_limit_w)) ELSE target
        t2 == IF s.grid_export_limit_w # None
              THEN Max(t1, 0 - Val(s.grid_export_limit_w)) ELSE t1
        t3 == IF t2 > 0 /\ s.battery_charge_limit_w # None
              THEN Min(t2, Val(s.battery_charge_limit_w)) ELSE t2
    IN  IF t3 < 0 /\ s.battery_discharge_limit_w # None
        THEN Max(t3, 0 - Val(s.battery_discharge_limit_w)) ELSE t3

\* Optional ramping against the last applied value (executor.py lines 78-85).
ramp_target_mutant_overshoot(s, last_setpoint_w, target) ==
    IF s.grid_ramp_w_per_second # None /\ last_setpoint_w # None
    THEN LET interval == Max(1, s.dbus_update_interval_seconds)
             max_delta == Max(0, Val(s.grid_ramp_w_per_second)) * interval
             delta == target - Val(last_setpoint_w)
         IN  IF delta # 0
             THEN Val(last_setpoint_w) + (IF delta > 0 THEN max_delta ELSE 0 - max_delta)
             ELSE target
    ELSE target
ramp_target(s, last_setpoint_w, target) ==
    IF s.grid_ramp_w_per_second # None /\ last_setpoint_w # None
    THEN LET interval == Max(1, s.dbus_update_interval_seconds)
             max_delta == Max(0, Val(s.grid_ramp_w_per_second)) * interval
             delta == target - Val(last_setpoint_w)
         IN  IF Abs(delta) > max_delta
             THEN Val(last_setpoint_w) + (IF delta > 0 THEN max_delta ELSE 0 - max_delta)
             ELSE target
    ELSE target

\* `self.dwell is not None and not self.dwell.should_change(...)`: the executors
\* of the application always hold state.dwell.
dwell_allows_mutant_skip(d, action, when) == TRUE
dwell_allows(d, action, when) == should_change(d, action, when)

\* What the bus does during one apply_setpoint call.
\*   kind "conn_fail":  every SystemBus()/get_object attempt raises;
\*   kind "write_fail": the proxy is obtained after conn_fails failed attempts,
\*                      then SetValue and Properties.Set raise on every attempt;
\*   kind "written":    the write succeeds after write_fails failed attempts;
\*                      verify lists what each read-back of the loop meets and
\*                      final what the read after an exhausted loop meets.
\* reset_ok says whether the fail-safe write of 0 goes through.
VerifyPaths_mutant_one_more(n) ==
    {[i \in 1..(j + 1) |-> IF i <= j THEN "mismatch" ELSE x] :
        j \in 0..n, x \in {"match", "read_fail", "reassert_fail"}}
        \cup {[i \in 1..(n + 1) |-> "mismatch"]}
VerifyPaths(n) ==
    {[i \in 1..(j + 1) |-> IF i <= j THEN "mismatch" ELSE x] :
        j \in 0..(n - 1), x \in {"match", "read_fail", "reassert_fail"}}
        \cup {[i \in 1..n |-> "mismatch"]}

BusBehaviours(s) ==
    LET R == Max(0, s.dbus_write_retries)
        N == Max(0, s.dbus_reassert_attempts)
    IN  [kind : {"conn_fail"}, conn_fails : {1 + s.dbus_write_retries}, write_fails : {0},
         verify : {<<>>}, final : {"match"}, reset_ok : BOOLEAN]
        \cup [kind : {"write_fail"}, conn_fails : 0..s.dbus_write_retries,
              write_fails : {R + 1}, verify : {<<>>}, final : {"match"}, reset_ok : BOOLEAN]
        \cup {b \in [kind : {"written"}, conn_fails : 0..s.dbus_write_retries,
                     write_fails : 0..R, verify : VerifyPaths(N),
                     final : {"match", "mismatch", "read_fail"}, reset_ok : {FALSE}] :
                 \* the final read only happens when the loop ran out
                 (Len(b.verify) < N \/ \E i \in DOMAIN b.verify : b.verify[i] # "mismatch")
                     => b.final = "match"}

\* A value the device holds when a read-back does not match the target.
Disturbed(target) == IF target = 0 THEN 1 ELSE 0

NoCall(when, outcome) ==
    [when |-> when, outcome |-> outcome, action |-> None, target |-> None,
     writes |-> <<>>, failure |-> "none", reset |-> "none", raised |-> FALSE,
     conn_attempts |-> 0, write_attempts |-> 0, reads |-> 0,
     apply_failures |-> 0, reasserts |-> 0, misapplies |-> 0]

\* NoOpExecutor.apply_setpoint (executor.py lines 31-45).
noop_apply_setpoint(ex, d, act, when, p) ==
    LET slot == slot_for(p, when)
        same == [executor |-> ex, dwell |-> d, actuator |-> act]
    IN  IF slot = None
        THEN same @@ [call |-> NoCall(when, "no_slot")]
        ELSE IF ~dwell_allows(d, Val(slot).action, when)
        THEN same @@ [call |-> [NoCall(when, "dwell_blocked") EXCEPT
                                   !.action = Some(Val(slot).action)]]
        ELSE [executor |-> ex,
              dwell |-> note_action(d, Val(slot).action, when),
              actuator |-> act,
              call |-> [NoCall(when, "applied") EXCEPT !.action = Some(Val(slot).action)]]

\* The except branch of DbusExecutor.apply_setpoint (executor.py lines 194-214):
\* count the failure, try to write 0, re-raise.
dbus_failed(ex, d, act, c, b) ==
    [executor |-> ex,
     dwell |-> d,
     actuator |-> IF b.reset_ok THEN 0 ELSE act,
     call |-> [c EXCEPT !.outcome = "failed",
                        !.apply_failures = @ + 1,
                        !.reset = IF b.reset_ok THEN "ok" ELSE "failed",
                        !.raised = TRUE]]

\* The verify-and-reassert loop and its else clause (executor.py lines 142-190).
dbus_verified(ex, d, c, s, target, b) ==
    LET N == Max(0, s.dbus_reassert_attempts)
        v == b.verify
        mismatches == Cardinality({i \in DOMAIN v : v[i] \in {"mismatch", "reassert_fail"}})
        rewrites == Cardinality({i \in DOMAIN v : v[i] = "mismatch"})
        exhausted == Len(v) = N /\ \A i \in DOMAIN v : v[i] = "mismatch"
        lastv == IF Len(v) = 0 THEN "none" ELSE v[Len(v)]
        held == IF exhausted
                THEN (IF b.final = "mismatch" THEN Disturbed(target) ELSE target)
                ELSE (IF lastv = "reassert_fail" THEN Disturbed(target) ELSE target)
    IN  [executor |-> [ex EXCEPT !.last_setpoint_w = Some(target)],
         dwell |-> d,
         actuator |-> held,
         call |-> [c EXCEPT
                     !.outcome = "applied",
                     !.reasserts = @ + mismatches,
                     !.misapplies = @ + (IF exhausted /\ b.final = "mismatch" THEN 1 ELSE 0),
                     !.writes = [i \in 1..(1 + rewrites) |-> target],
                     !.failure = IF lastv = "read_fail" THEN "readback"
                                 ELSE IF lastv = "reassert_fail" THEN "reassert"
                                 ELSE IF exhausted /\ b.final = "read_fail" THEN "readback"
                                 ELSE "none",
                     !.reads = Len(v) + (IF exhausted THEN 1 ELSE 0)]]

\* DbusExecutor.apply_setpoint (executor.py lines 54-214) against bus behaviour b.
dbus_apply_setpoint(ex, s, d, act, when, p, b) ==
    LET slot == slot_for(p, when)
        same == [executor |-> ex, dwell |-> d, actuator |-> act]
    IN  IF slot = None
        THEN same @@ [call |-> NoCall(when, "no_slot")]
        ELSE IF ~dwell_allows(d, Val(slot).action, when)
        THEN same @@ [call |-> [NoCall(when, "dwell_blocked") EXCEPT
                                   !.action = Some(Val(slot).action)]]
        ELSE
        LET d1 == note_action(d, Val(slot).action, when)
            target == ramp_target(s, ex.last_setpoint_w,
                                  clamp_target(s, Val(slot).target_grid_setpoint_w))
            c == [NoCall(when, "applied") EXCEPT
                     !.action = Some(Val(slot).action), !.target = Some(target)]
        IN  IF b.kind = "conn_fail"
            THEN dbus_failed(ex, d1, act,
                             [c EXCEPT !.failure = "connect",
                                       !.conn_attempts = 1 + s.dbus_write_retries], b)
            ELSE IF b.kind = "write_fail"
            THEN dbus_failed(ex, d1, act,
                             [c EXCEPT !.failure = "write",
                                       !.conn_attempts = b.conn_fails + 1,
                                       !.write_attempts = Max(0, s.dbus_write_retries) + 1], b)
            ELSE dbus_verified(ex, d1,
                               [c EXCEPT !.conn_attempts = b.conn_fails + 1,
                                         !.write_attempts = b.write_fails + 1],
                               s, target, b)

\* api._select_executor: the executor class by settings.executor_backend.
select_executor(s) ==
    [kind |-> IF s.executor_backend = "dbus" THEN "dbus" ELSE "noop",
     last_setpoint_w |-> None]

\* The dwell configuration create_app and update_config derive from the
\* settings (api.py lines 206-230): every action has an entry, its own dwell
\* when configured and the minimum otherwise.
dwell_seconds_setting(s, action) ==
    IF action = CHARGE_FROM_GRID THEN s.dwell_seconds_charge_from_grid
    ELSE IF action = DISCHARGE_TO_LOAD THEN s.dwell_seconds_discharge_to_load
    ELSE IF action = EXPORT_TO_GRID THEN s.dwell_seconds_export_to_grid
    ELSE s.dwell_seconds_idle
configured_dwell(s) ==
    DwellController(
        s.minimum_action_dwell_seconds,
        [a \in Action |-> IF dwell_seconds_setting(s, a) # None
                          THEN Val(dwell_seconds_setting(s, a))
                          ELSE s.minimum_action_dwell_seconds],
        None, None)

\* ---------------------------------------------------------------- config.py
\* HeliosSettings restricted to the fields its cross-field validator reads.
\* SoC values are whole percents.
HeliosSettings(window, recalc, min_soc, max_soc, reserve_soc) ==
    [planning_window_seconds |-> window,
     recalculation_interval_seconds |-> recalc,
     min_soc_percent |-> min_soc,
     max_soc_percent |-> max_soc,
     reserve_soc_percent |-> reserve_soc]

\* The Field(ge=..., le=...) constraints of these fields.
field_constraints(s) ==
    /\ s.planning_window_seconds >= 60
    /\ s.recalculation_interval_seconds >= 30
    /\ s.min_soc_percent >= 0 /\ s.min_soc_percent <= 100
    /\ s.max_soc_percent >= 0 /\ s.max_soc_percent <= 100
    /\ s.reserve_soc_percent >= 0 /\ s.reserve_soc_percent <= 100

\* _validate_invariants: TRUE when it returns self, FALSE when it raises.
validate_invariants(s) ==
    /\ ~(s.recalculation_interval_seconds > s.planning_window_seconds)
    /\ (0 <= s.min_soc_percent /\ s.min_soc_percent <= s.max_soc_percent
        /\ s.max_soc_percent <= 100)
    /\ (s.min_soc_percent <= s.reserve_soc_percent
        /\ s.reserve_soc_percent <= s.max_soc_percent)

\* HeliosSettings.model_validate: the validated object, None when it raises.
model_validate(data) ==
    IF field_constraints(data) /\ validate_invariants(data) THEN Some(data) ELSE None

\* ConfigUpdate.apply_to: the fields of the update that are not None replace
\* those of a dump of the settings, and the result is validated as a whole.
\* The settings object it is applied to is only read.
apply_to_mutant_no_validation(update, s) ==
    Some([f \in DOMAIN s |-> IF update[f] # None THEN Val(update[f]) ELSE s[f]])
apply_to(update, s) ==
    LET current == [f \in DOMAIN s |-> IF update[f] # None THEN Val(update[f]) ELSE s[f]]
    IN  model_validate(current)

\* ------------------------------------------------------------ scheduler.py
JobIds == {"recalc", "control", "telemetry"}

\* The interval _schedule_jobs gives each job.
interval_of(s, id) ==
    IF id = "recalc" THEN s.recalculation_interval_seconds
    ELSE IF id = "control" THEN s.dbus_update_interval_seconds
    ELSE Max(1, s.telemetry_update_interval_seconds)

\* The absolute cap _schedule_jobs puts on each job's jitter (lines 40, 59, 77).
jitter_cap(id) == IF id = "recalc" THEN 15 ELSE 2

\* The jitter _schedule_jobs gives a job of the interval i:
\* min(max(0, i // 10), cap, max(0, i - 1)).
jitter_of_mutant_no_tenth(id, i) == Min(jitter_cap(id), Max(0, i - 1))
jitter_of(id, i) == Min(Min(Max(0, i \div 10), jitter_cap(id)), Max(0, i - 1))

\* One add_job call of _schedule_jobs: the IntervalTrigger's seconds and jitter.
scheduled_job(s, id) ==
    [id |-> id, interval |-> interval_of(s, id), jitter |-> jitter_of(id, interval_of(s, id))]

\* The add_job calls of _schedule_jobs, in the order it makes them (every
\* caller in api.py passes a telemetry_job).
schedule_jobs(s) ==
    <<scheduled_job(s, "recalc"), scheduled_job(s, "control"), scheduled_job(s, "telemetry")>>

\* add_job(..., id=..., replace_existing=True) on a job store.
add_job(jobs, j) == {k \in jobs : k.id # j.id} \cup {j}

\* HeliosScheduler(state): a BackgroundScheduler that is not started and has
\* no jobs.  todo holds the add_job calls a running _schedule_jobs has still
\* to make, skipped the ids of the jobs a firing of which was skipped, error
\* whether the last call of start or reschedule raised, and job_errors the
\* ids of the jobs an execution of which ended with an exception.
HeliosScheduler ==
    [state |-> "stopped", jobs |-> {}, todo |-> <<>>, skipped |-> {}, error |-> "none",
     job_errors |-> {}]

\* Whether the scheduler thread starts an execution of the due job id: the
\* scheduler runs, the job is in the store, and (max_instances=1) no
\* execution that the scheduler itself started is still in flight.
may_fire(s, fl, id) ==
    /\ s.state = "running"
    /\ \E j \in s.jobs : j.id = id
    /\ ~\E e \in fl : e.job = id /\ e.via = "scheduler"

\* HeliosScheduler.shutdown: scheduler.shutdown(wait=False).
shutdown_mutant_no_stop(s) == s
shutdown(s) == [s EXCEPT !.state = "shutdown"]

\* ------------------------------------------- api.py, providers.py: providers
\* A provider instance.  id tells instances apart; cached is whether the
\* Tibber price cache has an entry (a StubPriceProvider has no cache, no
\* token and no home id).  An unset token or home id is "".
PriceProvider(class, token, home, id) ==
    [class |-> class, access_token |-> token, home_id |-> home, id |-> id, cached |-> FALSE]

\* _select_price_provider: a new instance, numbered id.
select_price_provider(s, id) ==
    IF s.price_provider = "tibber" /\ s.tibber_token # ""
    THEN PriceProvider("TibberPriceProvider", s.tibber_token, s.tibber_home_id, id)
    ELSE PriceProvider("StubPriceProvider", "", "", id)

\* _recalc_plan, lines 94-108: whether the job constructs a new provider.
needs_new_mutant_always(s, current) == TRUE
needs_new(s, current) ==
    LET desired_is_tibber == s.price_provider = "tibber" /\ s.tibber_token # ""
    IN  IF current = None THEN TRUE
        ELSE IF desired_is_tibber /\ Val(current).class # "TibberPriceProvider" THEN TRUE
        ELSE IF ~desired_is_tibber /\ Val(current).class # "StubPriceProvider" THEN TRUE
        ELSE IF desired_is_tibber /\ Val(current).class = "TibberPriceProvider"
        THEN Val(current).access_token # s.tibber_token
        ELSE FALSE

\* update_config, lines 603-616: whether the desired provider replaces the
\* current one.
swap_provider(current, desired) ==
    IF current = None THEN TRUE
    ELSE IF Val(current).class # desired.class THEN TRUE
    ELSE IF Val(current).class = "TibberPriceProvider" /\ desired.class = "TibberPriceProvider"
    THEN Val(current).access_token # desired.access_token \/ Val(current).home_id # desired.home_id
    ELSE FALSE

\* provider.get_prices(start, end) with the upstream behaving as given:
\* whether an upstream request was made, how the call ended and whether the
\* cache has an entry afterwards.  The stub computes its prices; Tibber
\* answers from its cache when it has an entry, and otherwise asks upstream:
\* an answer with homes is cached, an answer without homes is returned
\* uncached, an httpx.HTTPError is raised again after the retries.
provider_get_prices(p, upstream) ==
    IF p.class = "StubPriceProvider" \/ p.cached
    THEN [requested |-> FALSE, raised |-> FALSE, cached |-> p.cached]
    ELSE [requested |-> TRUE, raised |-> upstream = "error", cached |-> upstream = "ok"]

\* The order of _recalc_plan's steps after the locked prologue.
recalc_steps_mutant_publish_first == <<"build", "publish", "fetch", "forecast">>
recalc_steps == <<"fetch", "forecast", "build", "publish">>

\* Planner.build_plan as far as the settings go: the Plan records the window
\* and spans the horizon of the settings object the Planner holds.
build_plan_of(pl, t) ==
    [generated_at |-> t,
     planning_window_seconds |-> pl.settings.planning_window_seconds,
     horizon_hours |-> pl.settings.planning_horizon_hours]

\* ------------------------------------------------- parked variable groups
DwellIdle ==
    /\ now = 0
    /\ dwell = DwellController(0, <<>>, None, None)
    /\ sc = None
    /\ na = None
DecideIdle ==
    /\ dIn = None
    /\ dOut = None

PlanIdle ==
    /\ pIn = None
    /\ bp = None
    /\ plan = None
    /\ q = None

ExecIdle ==
    /\ settings = None
    /\ executor = None
    /\ latest_plan = None
    /\ automation_paused = FALSE
    /\ last_control_at = None
    /\ actuator = 0
    /\ applied = None
    /\ call = None

LockIdle ==
    /\ lock = None
    /\ pc = <<>>
    /\ local = <<>>

AppIdle ==
    /\ cfg = None
    /\ app = "init"
    /\ sched = None
    /\ inflight = {}

RecalcIdle ==
    /\ price_provider = None
    /\ planner = None
    /\ last_recalc_at = None
    /\ rj = None

dwellVars == <<now, dwell, sc, na>>
decideVars == <<dIn, dOut>>
planVars == <<pIn, bp, plan, q>>
execVars == <<settings, executor, latest_plan, automation_paused, last_control_at,
              actuator, applied, call>>
lockVars == <<lock, pc, local>>
appVars == <<cfg, app, sched, inflight>>
recalcVars == <<price_provider, planner, last_recalc_at, rj>>
notDwellVars == <<decideVars, planVars, execVars, lockVars, appVars, recalcVars>>
notDecideVars == <<dwellVars, planVars, execVars, lockVars, appVars, recalcVars>>
notPlanVars == <<dwellVars, decideVars, execVars, lockVars, appVars, recalcVars>>

\* ============================================================ SpecDwell
\* The DwellController on its own: any construction the dataclass accepts,
\* then should_change / note_action calls at non-decreasing times.
PerActionMaps ==
    UNION {[S -> {0, MaxDwell}] : S \in SUBSET Action}

DwellInit ==
    /\ now = 0
    /\ \E m \in 0..MaxDwell, pa \in PerActionMaps, la \in {None} \cup {Some(a) : a \in Action} :
         dwell = DwellController(m, pa, la, None)
    /\ sc = None
    /\ na = None
    /\ DecideIdle
    /\ PlanIdle
    /\ ExecIdle
    /\ LockIdle
    /\ AppIdle
    /\ RecalcIdle

\* A caller asks should_change(new_action, now); nothing is modified.
ShouldChange(new_action) ==
    /\ sc' = Some([new_action |-> new_action, at |-> now, before |-> dwell,
                   result |-> should_change(dwell, new_action, now)])
    /\ na' = None
    /\ UNCHANGED <<now, dwell, notDwellVars>>

\* A caller records note_action(action, now).
NoteAction(action) ==
    /\ dwell' = note_action(dwell, action, now)
    /\ sc' = None
    /\ na' = Some([action |-> action, at |-> now, before |-> dwell])
    /\ UNCHANGED <<now, notDwellVars>>

\* Time passes between calls.
Advance ==
    /\ now < MaxTime
    /\ now' = now + 1
    /\ sc' = None
    /\ na' = None
    /\ UNCHANGED <<dwell, notDwellVars>>

DwellNext ==
    \/ \E a \in Action : ShouldChange(a)
    \/ \E a \in Action : NoteAction(a)
    \/ Advance

SpecDwell == DwellInit /\ [][DwellNext]_vars

\* =========================================================== SpecDecide
\* Planner._decide_action as a function of the settings, the window price
\* and the pivot.
DecideSettings ==
    [grid_import_limit_w : {None, Some(0), Some(1500)},
     grid_export_limit_w : {None, Some(0), Some(2000)},
     battery_charge_limit_w : {None, Some(0), Some(500)},
     battery_discharge_limit_w : {None, Some(0), Some(500)},
     assumed_current_soc_percent : {None, Some(40), Some(50), Some(95)},
     max_soc_percent : {95},
     reserve_soc_percent : {40},
     price_hysteresis : {0, 2},
     buy_price_multiplier : {1, 2},
     buy_price_fixed_fee : {0, 2},
     sell_price_multiplier : {1, 2},
     sell_price_fixed_deduction : {0},
     grid_sell_enabled : BOOLEAN]

DecidePrices == {4, 8, 10, 12, 14, 16}
DecidePivots == {12}

DecideInit ==
    /\ DwellIdle
    /\ PlanIdle
    /\ ExecIdle
    /\ LockIdle
    /\ AppIdle
    /\ RecalcIdle
    /\ \E s \in DecideSettings, p \in DecidePrices, pv \in DecidePivots :
         dIn = Some([settings |-> s, price_mid |-> p, pivot |-> pv])
    /\ dOut = None

Decide ==
    /\ dIn # None
    /\ dOut = None
    /\ dOut' = Some(decide_action(Val(dIn).settings, Val(dIn).price_mid, Val(dIn).pivot))
    /\ UNCHANGED <<dIn, notDecideVars>>

DecideNext == Decide

SpecDecide == DecideInit /\ [][DecideNext]_vars

\* ============================================================= SpecPlan
\* Planner.build_plan on bounded inputs, then Plan.slot_for on the result.
PlanWindows == {600, 900, 1000, 3600, 4000, 7300}
PlanNows == {7200, 7201, 10799}
PlanPrices == {0 - 4, 0, 20}

\* Settings with a price hysteresis of 2; and, with a one-hour window and
\* horizon, the same without hysteresis.
PlanSettings ==
    LET banded ==
    [planning_window_seconds : PlanWindows,
     planning_horizon_hours : 1..MaxHorizonHours,
     grid_import_limit_w : {Some(1500)},
     grid_export_limit_w : {Some(2000)},
     battery_charge_limit_w : {None},
     battery_discharge_limit_w : {None},
     assumed_current_soc_percent : {None},
     max_soc_percent : {95},
     reserve_soc_percent : {40},
     price_hysteresis : {2},
     buy_price_multiplier : {1},
     buy_price_fixed_fee : {0},
     sell_price_multiplier : {1},
     sell_price_fixed_deduction : {0},
     grid_sell_enabled : BOOLEAN]
    IN  banded \cup
            {[s EXCEPT !.price_hysteresis = 0] :
                s \in {x \in banded : /\ x.planning_window_seconds = 3600
                                      /\ x.planning_horizon_hours = 1}}

\* Hourly series as the providers return them: entries from the top of the
\* current hour, one per hour.
PlanSeries(t) ==
    UNION {{[i \in 1..n |-> <<hour_start(t) + SecondsPerHour * (i - 1), ps[i]>>] :
               ps \in [1..n -> PlanPrices]} : n \in 0..MaxSeriesLen}

PlanInit ==
    /\ DwellIdle
    /\ DecideIdle
    /\ ExecIdle
    /\ LockIdle
    /\ AppIdle
    /\ RecalcIdle
    /\ \E s \in PlanSettings, t \in PlanNows :
         \E series \in PlanSeries(t) :
             pIn = Some([settings |-> s, now |-> t, price_series |-> series])
    /\ bp = None
    /\ plan = None
    /\ q = None

\* build_plan up to the loop: horizon alignment and pivot (planner.py lines 21-42).
BuildPlanEnter ==
    /\ pIn # None
    /\ bp = None
    /\ plan = None
    /\ LET s == Val(pIn).settings
           series == Val(pIn).price_series
           prices == [i \in DOMAIN series |-> series[i][2]]
       IN  bp' = Some([t |-> plan_start(s, Val(pIn).now),
                       end |-> plan_end(s, Val(pIn).now),
                       pivot |-> IF Len(prices) > 0 THEN median(prices) ELSE 0,
                       slots |-> <<>>])
    /\ UNCHANGED <<pIn, plan, q, notPlanVars>>

\* One iteration of `while t < end` (planner.py lines 43-68).
BuildPlanSlice ==
    /\ bp # None
    /\ Val(bp).t < Val(bp).end
    /\ LET b == Val(bp)
           s == Val(pIn).settings
           slice_end == slice_end_of(s, b.t, b.end)
       IN  bp' = Some([b EXCEPT
                   !.slots = Append(b.slots,
                                 make_slot(s, Val(pIn).price_series, b.pivot, b.t, slice_end)),
                   !.t = slice_end])
    /\ UNCHANGED <<pIn, plan, q, notPlanVars>>

\* Loop exit and `return Plan(...)` (planner.py lines 70-83).
BuildPlanReturn ==
    /\ bp # None
    /\ ~(Val(bp).t < Val(bp).end)
    /\ plan' = Some([generated_at |-> Val(pIn).now,
                     planning_window_seconds |-> Val(pIn).settings.planning_window_seconds,
                     slots |-> Val(bp).slots])
    /\ bp' = None
    /\ UNCHANGED <<pIn, q, notPlanVars>>

\* The times a reader asks about: the call time, and the instants at and next
\* to every slot boundary.
QueryTimes(p) ==
    {Val(pIn).now}
        \cup UNION {{p.slots[i].start - 1, p.slots[i].start,
                     p.slots[i].end - 1, p.slots[i].end, p.slots[i].end + 1} :
                        i \in DOMAIN p.slots}

\* One lookup per behaviour: slot_for modifies nothing, so a later lookup
\* would start from the state the first one started from.
SlotFor(at) ==
    /\ plan # None
    /\ q = None
    /\ q' = Some([at |-> at, before |-> Val(plan), result |-> slot_for(Val(plan), at)])
    /\ UNCHANGED <<pIn, bp, plan, notPlanVars>>

PlanNext ==
    \/ BuildPlanEnter
    \/ BuildPlanSlice
    \/ BuildPlanReturn
    \/ \E at \in (IF plan = None THEN {} ELSE QueryTimes(Val(plan))) : SlotFor(at)

SpecPlan == PlanInit /\ [][PlanNext]_vars

\* ================================================================= Spec
\* The control path of the running application: the control job against the
\* executor chosen by the settings, plan publication, pause and resume.
ExecProfile(import, export, charge, discharge, ramp, minimum, charge_dwell, retries, reasserts, backend) ==
    [grid_import_limit_w |-> import, grid_export_limit_w |-> export,
     battery_charge_limit_w |-> charge, battery_discharge_limit_w |-> discharge,
     grid_ramp_w_per_second |-> ramp,
     dbus_update_interval_seconds |-> 10,
     minimum_action_dwell_seconds |-> minimum,
     dwell_seconds_charge_from_grid |-> charge_dwell,
     dwell_seconds_discharge_to_load |-> None,
     dwell_seconds_export_to_grid |-> None,
     dwell_seconds_idle |-> None,
     dbus_write_retries |-> retries,
     dbus_reassert_attempts |-> reasserts,
     executor_backend |-> backend]

\* The settings the application may run with: no limits at all; grid and
\* battery limits with a ramp of 500 W per control interval and a global
\* dwell; grid limits only with a ramp of 1000 W per interval and a dwell for
\* charging only; and the no-op executor with both kinds of dwell.
ExecSettings ==
    {ExecProfile(None, None, None, None, None, 0, None, 0, 0, "dbus"),
     ExecProfile(Some(2000), Some(2000), Some(500), Some(500), Some(50), MaxDwell, None,
                 0, MaxReassert, "dbus"),
     ExecProfile(Some(2000), Some(1000), None, None, Some(100), 0, Some(1),
                 MaxRetries, 0, "dbus"),
     ExecProfile(None, None, None, None, None, MaxDwell, Some(1), 0, 0, "noop")}

\* Plans a recalculation may have published: two slots of two seconds from
\* time 0, so that the clock runs past the end of the plan.
ExecSlot(i, action, setpoint) ==
    [start |-> 2 * (i - 1), end |-> 2 * i, action |-> action,
     target_grid_setpoint_w |-> setpoint]
ExecPlan(a1, w1, a2, w2) ==
    [generated_at |-> 0, planning_window_seconds |-> 2,
     slots |-> <<ExecSlot(1, a1, w1), ExecSlot(2, a2, w2)>>]
ExecPlans ==
    {ExecPlan(CHARGE_FROM_GRID, 3000, EXPORT_TO_GRID, 0 - 3000),
     ExecPlan(EXPORT_TO_GRID, 0 - 3000, CHARGE_FROM_GRID, 300),
     ExecPlan(IDLE, 0, CHARGE_FROM_GRID, 3000)}

Init ==
    /\ DecideIdle
    /\ PlanIdle
    /\ now = 0
    /\ sc = None
    /\ na = None
    /\ settings \in {Some(s) : s \in ExecSettings}
    /\ dwell = configured_dwell(Val(settings))
    /\ executor = Some(select_executor(Val(settings)))
    /\ latest_plan = None
    /\ automation_paused = FALSE
    /\ last_control_at = None
    /\ actuator = 0
    /\ applied = None
    /\ call = None
    /\ LockIdle
    /\ AppIdle
    /\ RecalcIdle

\* The clock advances between the runs of the jobs.
Tick ==
    /\ now < MaxTime
    /\ now' = now + 1
    /\ UNCHANGED <<dwell, sc, na, decideVars, planVars, execVars, lockVars, appVars, recalcVars>>

\* _recalc_plan publishing a new Plan (api.py lines 146-148).
PublishPlan(p) ==
    /\ latest_plan # Some(p)
    /\ latest_plan' = Some(p)
    /\ UNCHANGED <<settings, executor, automation_paused, last_control_at, actuator, applied,
                   call, dwellVars, decideVars, planVars, lockVars, appVars, recalcVars>>

\* control_job and _do_control (api.py lines 153-171, 244-246) at time `now`,
\* the bus behaving as b during the executor call.  The counters of metrics.py
\* are write-only for the program; the model keeps the increments of each run
\* in `call` instead of running totals.
ControlJob_mutant_ignores_pause(b) ==
    /\ last_control_at' = Some(now)
    /\ IF latest_plan = None
       THEN /\ call' = Some(NoCall(now, IF automation_paused THEN "paused" ELSE "no_plan"))
            /\ UNCHANGED <<executor, dwell, actuator, applied>>
       ELSE LET r == IF Val(executor).kind = "dbus"
                     THEN dbus_apply_setpoint(Val(executor), Val(settings), dwell, actuator,
                                              now, Val(latest_plan), b)
                     ELSE noop_apply_setpoint(Val(executor), dwell, actuator, now,
                                              Val(latest_plan))
            IN  /\ executor' = Some(r.executor)
                /\ dwell' = r.dwell
                /\ actuator' = r.actuator
                /\ applied' = IF r.call.reset = "ok" THEN Some(0)
                              ELSE IF r.call.writes # <<>>
                              THEN Some(r.call.writes[Len(r.call.writes)])
                              ELSE applied
                /\ call' = Some(r.call)
    /\ UNCHANGED <<now, sc, na, settings, latest_plan, automation_paused, decideVars, planVars, lockVars, appVars, recalcVars>>
ControlJob(b) ==
    /\ last_control_at' = Some(now)
    /\ IF automation_paused \/ latest_plan = None
       THEN /\ call' = Some(NoCall(now, IF automation_paused THEN "paused" ELSE "no_plan"))
            /\ UNCHANGED <<executor, dwell, actuator, applied>>
       ELSE LET r == IF Val(executor).kind = "dbus"
                     THEN dbus_apply_setpoint(Val(executor), Val(settings), dwell, actuator,
                                              now, Val(latest_plan), b)
                     ELSE noop_apply_setpoint(Val(executor), dwell, actuator, now,
                                              Val(latest_plan))
            IN  /\ executor' = Some(r.executor)
                /\ dwell' = r.dwell
                /\ actuator' = r.actuator
                /\ applied' = IF r.call.reset = "ok" THEN Some(0)
                              ELSE IF r.call.writes # <<>>
                              THEN Some(r.call.writes[Len(r.call.writes)])
                              ELSE applied
                /\ call' = Some(r.call)
    /\ UNCHANGED <<now, sc, na, settings, latest_plan, automation_paused, decideVars, planVars, lockVars, appVars, recalcVars>>

\* POST /pause (api.py lines 461-484): set the flag, then with the D-Bus
\* executor try to write 0; a failing write is logged and swallowed.
Pause(reset_ok) ==
    /\ ~automation_paused
    /\ automation_paused' = TRUE
    /\ actuator' = IF Val(executor).kind = "dbus" /\ reset_ok THEN 0 ELSE actuator
    /\ applied' = IF Val(executor).kind = "dbus" /\ reset_ok THEN Some(0) ELSE applied
    /\ UNCHANGED <<settings, executor, latest_plan, last_control_at, call,
                   dwellVars, decideVars, planVars, lockVars, appVars, recalcVars>>

\* POST /resume (api.py lines 486-490).
Resume ==
    /\ automation_paused
    /\ automation_paused' = FALSE
    /\ UNCHANGED <<settings, executor, latest_plan, last_control_at, actuator, applied,
                   call, dwellVars, decideVars, planVars, lockVars, appVars, recalcVars>>

\* PUT /config (api.py lines 568-635): the new settings replace the old ones,
\* the DwellController takes the new dwell times in place and keeps what it
\* recorded, and a fresh executor replaces the current one.
UpdateConfig(new) ==
    /\ settings' = Some(new)
    /\ dwell' = [dwell EXCEPT
                    !.minimum_dwell_seconds = configured_dwell(new).minimum_dwell_seconds,
                    !.per_action_dwell_seconds = configured_dwell(new).per_action_dwell_seconds]
    /\ executor' = Some(select_executor(new))
    /\ UNCHANGED <<now, sc, na, latest_plan, automation_paused, last_control_at, actuator,
                   applied, call, decideVars, planVars, lockVars, appVars, recalcVars>>

Next ==
    \/ Tick
    \/ \E p \in ExecPlans : PublishPlan(p)
    \/ \E b \in BusBehaviours(Val(settings)) : ControlJob(b)
    \/ \E ok \in BOOLEAN : Pause(ok)
    \/ Resume

Spec == Init /\ [][Next]_vars

\* ============================================================ SpecConfig
\* The control path with configuration updates.  The bus either takes a write
\* and reads it back as written, or refuses every write attempt of a call.
ConfigBusBehaviours(s) ==
    {b \in BusBehaviours(s) :
        /\ b.kind \in {"write_fail", "written"}
        /\ b.conn_fails = 0
        /\ b.kind = "written" =>
              /\ b.write_fails = 0
              /\ \A i \in DOMAIN b.verify : b.verify[i] = "match"}

ConfigNext ==
    \/ Tick
    \/ \E p \in ExecPlans : PublishPlan(p)
    \/ \E b \in ConfigBusBehaviours(Val(settings)) : ControlJob(b)
    \/ \E ok \in BOOLEAN : Pause(ok)
    \/ Resume
    \/ \E new \in ExecSettings : UpdateConfig(new)

SpecConfig == Init /\ [][ConfigNext]_vars

\* ============================================================== SpecRamp
\* The control job against a D-Bus executor with a ramp, ticking through
\* plans whose target stays the same over both slots or changes to one that
\* is not a whole number of ramp steps away.
RampPlans ==
    {ExecPlan(CHARGE_FROM_GRID, 3000, CHARGE_FROM_GRID, 3000),
     ExecPlan(EXPORT_TO_GRID, 0 - 3000, EXPORT_TO_GRID, 0 - 3000),
     ExecPlan(EXPORT_TO_GRID, 0 - 3000, CHARGE_FROM_GRID, 300)}

RampInit ==
    /\ Init
    /\ Val(settings).grid_ramp_w_per_second # None
    /\ Val(settings).executor_backend = "dbus"

RampNext ==
    \/ Tick
    \/ \E p \in RampPlans : PublishPlan(p)
    \/ \E b \in BusBehaviours(Val(settings)) : ControlJob(b)

SpecRamp == RampInit /\ [][RampNext]_vars

\* ============================================================= SpecApply
\* One call of DbusExecutor.apply_setpoint past the dwell check, bus call by
\* bus call, against a bus that may fail or disturb any call.  local keeps
\* the loop counters of the method (_bus_attempts, attempt, attempts) and,
\* apart from them, how many connections, initial writes and read-backs the
\* call has made.
ApplySettings ==
    [dbus_write_retries : 0..MaxRetries, dbus_reassert_attempts : 0..MaxReassert]
ApplyTargets == {0, 1000}

ApplyLocals(target) ==
    [target |-> target, bus_attempts |-> 0, attempt |-> 0, attempts |-> 0,
     connects |-> 0, sets |-> 0, gets |-> 0, final_gets |-> 0]

\* `if attempt >= write_retries: raise` (executor.py line 133).
write_exhausted_mutant_one_more(attempt, write_retries) == attempt > write_retries
write_exhausted(attempt, write_retries) == attempt >= write_retries

ApplyInit ==
    /\ DwellIdle
    /\ DecideIdle
    /\ PlanIdle
    /\ AppIdle
    /\ RecalcIdle
    /\ settings \in {Some(s) : s \in ApplySettings}
    /\ executor = Some([kind |-> "dbus", last_setpoint_w |-> None])
    /\ latest_plan = None
    /\ automation_paused = FALSE
    /\ last_control_at = None
    /\ actuator \in ApplyTargets
    /\ applied = None
    /\ call = None
    /\ lock = None
    /\ pc = [t \in {"control_job"} |-> "connect"]
    /\ local \in {[t \in {"control_job"} |-> ApplyLocals(target)] : target \in ApplyTargets}

applyFrame == <<settings, latest_plan, automation_paused, last_control_at, call, lock, dwellVars, decideVars, planVars, appVars, recalcVars>>

ApplyAt(step) == pc["control_job"] = step
ApplyGoto(step, l) ==
    /\ pc' = [pc EXCEPT !["control_job"] = step]
    /\ local' = [local EXCEPT !["control_job"] = l]

\* The connect loop (executor.py lines 90-106): dbus.SystemBus() and
\* get_object, at most _max_bus_attempts times; with no proxy the method
\* raises into its failure path.
Connect(ok) ==
    /\ ApplyAt("connect")
    /\ LET l == local["control_job"]
           max_bus_attempts == 1 + Val(settings).dbus_write_retries
           l1 == [l EXCEPT !.connects = @ + 1]
           l2 == [l1 EXCEPT !.bus_attempts = @ + 1]
       IN  IF ok THEN ApplyGoto("write", l1)
           ELSE IF l2.bus_attempts < max_bus_attempts THEN ApplyGoto("connect", l2)
           ELSE ApplyGoto("failsafe", l2)
    /\ UNCHANGED <<executor, actuator, applied, applyFrame>>

\* One pass of the write loop (lines 116-123): BusItem.SetValue.
Write(ok) ==
    /\ ApplyAt("write")
    /\ LET l == [local["control_job"] EXCEPT !.sets = @ + 1]
       IN  /\ ApplyGoto(IF ok THEN "written" ELSE "write_fallback", l)
           /\ actuator' = IF ok THEN l.target ELSE actuator
           /\ applied' = IF ok THEN Some(l.target) ELSE applied
    /\ UNCHANGED <<executor, applyFrame>>

\* The fallback Properties.Set of the pass (lines 124-138); when it fails too,
\* the method raises after write_retries retries.
WriteFallback(ok) ==
    /\ ApplyAt("write_fallback")
    /\ LET l == local["control_job"]
           write_retries == Max(0, Val(settings).dbus_write_retries)
       IN  /\ IF ok THEN ApplyGoto("written", l)
              ELSE IF write_exhausted(l.attempt, write_retries) THEN ApplyGoto("failsafe", l)
              ELSE ApplyGoto("write", [l EXCEPT !.attempt = @ + 1])
           /\ actuator' = IF ok THEN l.target ELSE actuator
           /\ applied' = IF ok THEN Some(l.target) ELSE applied
    /\ UNCHANGED <<executor, applyFrame>>

\* Lines 139-140: the write is logged and remembered.
Written ==
    /\ ApplyAt("written")
    /\ executor' = Some([Val(executor) EXCEPT !.last_setpoint_w = Some(local["control_job"].target)])
    /\ ApplyGoto("verify", local["control_job"])
    /\ UNCHANGED <<actuator, applied, applyFrame>>

\* The head of the verify loop and its read-back (lines 142-161), and the
\* final read of the else clause once the loop has run out (lines 178-190).
\* A read that raises leaves the loop; the final read is swallowed.
Verify(read) ==
    /\ ApplyAt("verify")
    /\ LET l == local["control_job"]
           max_attempts == Max(0, Val(settings).dbus_reassert_attempts)
       IN  IF l.attempts < max_attempts
           THEN /\ ApplyGoto(IF read = "mismatch" THEN "reassert" ELSE "returned",
                             [l EXCEPT !.attempts = @ + 1, !.gets = @ + 1])
                /\ actuator' = IF read = "mismatch" THEN Disturbed(l.target) ELSE actuator
           ELSE /\ ApplyGoto("returned", [l EXCEPT !.final_gets = @ + 1])
                /\ actuator' = IF read = "mismatch" THEN Disturbed(l.target) ELSE actuator
    /\ UNCHANGED <<executor, applied, applyFrame>>

\* The re-assert after a mismatching read (lines 162-170): SetValue, then
\* Properties.Set; when both fail the exception ends the loop (lines 175-177).
Reassert(ok) ==
    /\ ApplyAt("reassert")
    /\ ApplyGoto(IF ok THEN "verify" ELSE "reassert_fallback", local["control_job"])
    /\ actuator' = IF ok THEN local["control_job"].target ELSE actuator
    /\ applied' = IF ok THEN Some(local["control_job"].target) ELSE applied
    /\ UNCHANGED <<executor, applyFrame>>

ReassertFallback(ok) ==
    /\ ApplyAt("reassert_fallback")
    /\ ApplyGoto(IF ok THEN "verify" ELSE "returned", local["control_job"])
    /\ actuator' = IF ok THEN local["control_job"].target ELSE actuator
    /\ applied' = IF ok THEN Some(local["control_job"].target) ELSE applied
    /\ UNCHANGED <<executor, applyFrame>>

\* The failure path (lines 191-214): the best-effort write of 0, then raise.
Failsafe(ok) ==
    /\ ApplyAt("failsafe")
    /\ ApplyGoto("raised", local["control_job"])
    /\ actuator' = IF ok THEN 0 ELSE actuator
    /\ applied' = IF ok THEN Some(0) ELSE applied
    /\ UNCHANGED <<executor, applyFrame>>

ApplyNext ==
    \/ \E ok \in BOOLEAN : Connect(ok)
    \/ \E ok \in BOOLEAN : Write(ok)
    \/ \E ok \in BOOLEAN : WriteFallback(ok)
    \/ Written
    \/ \E read \in {"match", "mismatch", "raise"} : Verify(read)
    \/ \E ok \in BOOLEAN : Reassert(ok)
    \/ \E ok \in BOOLEAN : ReassertFallback(ok)
    \/ \E ok \in BOOLEAN : Failsafe(ok)

\* The thread that runs the call keeps running.
SpecApply == ApplyInit /\ [][ApplyNext]_vars /\ WF_vars(ApplyNext)

\* ============================================================== SpecLock
\* The threads of the application around state.lock: the three scheduler
\* jobs and an API request thread.  An operation is the sequence of its
\* steps; a step takes or releases the lock (`with state.lock:` and its end)
\* and carries the accesses made at that point, each with its line in api.py
\* (planner.py for the kinds "slot" and "plan").  Of the data, the
\* specification follows the plan, the pause flag, last_control_at and
\* last_recalc_at; the other fields of HeliosState appear as accesses only.
Threads == {"recalc_job", "control_job", "telemetry_job", "api"}

Acc(kind, field, line) == [kind |-> kind, field |-> field, line |-> line, value |-> FALSE]
AccV(kind, field, line, value) == [kind |-> kind, field |-> field, line |-> line, value |-> value]
StepOf(lk, exit, accs) == [lock |-> lk, exit |-> exit, acc |-> accs]

\* _recalc_plan (api.py lines 84-151); build_plan appends its slots one by one
\* and constructs the Plan at its return.
recalc_plan_mutant_publish_first ==
    <<StepOf("acquire", "never",
             <<Acc("clock", "now", 86), Acc("read", "settings", 91),
               Acc("read", "price_provider", 92), Acc("write", "price_provider", 112)>>),
      StepOf("release", "never", <<>>),
      StepOf("none", "never",
             <<Acc("fetch", "price_provider", 120), Acc("read", "forecast_provider", 125),
               Acc("fetch", "forecast_provider", 129), Acc("read", "planner", 139)>>),
      StepOf("none", "never", <<Acc("slot", "slots", 67)>>),
      StepOf("none", "never", <<Acc("plan", "plan", 78)>>),
      StepOf("acquire", "never",
             <<Acc("write", "latest_plan", 147), Acc("write", "last_recalc_at", 148)>>),
      StepOf("release", "never", <<>>)>>
recalc_plan_mutant_fetch_locked ==
    <<StepOf("acquire", "never",
             <<Acc("clock", "now", 86), Acc("read", "settings", 91),
               Acc("read", "price_provider", 92), Acc("write", "price_provider", 112)>>),
      StepOf("none", "never",
             <<Acc("fetch", "price_provider", 120), Acc("read", "forecast_provider", 125),
               Acc("fetch", "forecast_provider", 129), Acc("read", "planner", 139)>>),
      StepOf("release", "never", <<>>)>>
      \o [k \in 1..MaxSlots |-> StepOf("none", "never", <<Acc("slot", "slots", 67)>>)]
      \o <<StepOf("none", "never", <<Acc("plan", "plan", 78)>>),
           StepOf("acquire", "never",
                  <<Acc("write", "latest_plan", 147), Acc("write", "last_recalc_at", 148)>>),
           StepOf("release", "never", <<>>)>>
recalc_plan ==
    <<StepOf("acquire", "never",
             <<Acc("clock", "now", 86), Acc("read", "settings", 91),
               Acc("read", "price_provider", 92), Acc("write", "price_provider", 112)>>),
      StepOf("release", "never", <<>>),
      StepOf("none", "never",
             <<Acc("fetch", "price_provider", 120), Acc("read", "forecast_provider", 125),
               Acc("fetch", "forecast_provider", 129), Acc("read", "planner", 139)>>)>>
      \o [k \in 1..MaxSlots |-> StepOf("none", "never", <<Acc("slot", "slots", 67)>>)]
      \o <<StepOf("none", "never", <<Acc("plan", "plan", 78)>>),
           StepOf("acquire", "never",
                  <<Acc("write", "latest_plan", 147), Acc("write", "last_recalc_at", 148)>>),
           StepOf("release", "never", <<>>)>>

\* _do_control (api.py lines 153-171).
do_control ==
    <<StepOf("acquire", "never",
             <<Acc("clock", "now", 154), Acc("write", "last_control_at", 157), Acc("read", "automation_paused", 158),
               Acc("read", "latest_plan", 159)>>),
      StepOf("release", "paused_or_no_plan", <<>>),
      StepOf("none", "never",
             <<Acc("read", "executor", 166), Acc("use", "plan", 167),
               Acc("bus", "actuator", 167)>>)>>

\* telemetry_job (api.py lines 248-286).
telemetry_job ==
    <<StepOf("none", "never", <<Acc("read", "telemetry_reader", 250)>>),
      StepOf("acquire", "never", <<Acc("write", "last_telemetry", 253)>>),
      StepOf("release", "never", <<>>),
      StepOf("none", "never", <<Acc("read", "settings", 257)>>)>>

\* GET /status (api.py lines 637-663).
status ==
    <<StepOf("acquire", "never",
             <<Acc("read", "latest_plan", 644), Acc("use", "plan", 645),
               Acc("read", "last_telemetry", 651), Acc("read", "automation_paused", 653),
               Acc("read", "last_recalc_at", 654), Acc("read", "last_control_at", 655)>>),
      StepOf("release", "never", <<>>)>>

\* POST /pause and POST /resume (api.py lines 461-490); both return status().
pause_mutant_bus_locked ==
    <<StepOf("acquire", "never",
             <<AccV("write", "automation_paused", 464, TRUE), Acc("read", "executor", 465),
               Acc("bus", "actuator", 476)>>),
      StepOf("release", "never", <<>>)>> \o status
pause ==
    <<StepOf("acquire", "never",
             <<AccV("write", "automation_paused", 464, TRUE), Acc("read", "executor", 465)>>),
      StepOf("release", "never", <<>>),
      StepOf("none", "never", <<Acc("bus", "actuator", 476)>>)>> \o status
resume ==
    <<StepOf("acquire", "never", <<AccV("write", "automation_paused", 488, FALSE)>>),
      StepOf("release", "never", <<>>)>> \o status

\* GET /plan (api.py lines 665-673).
get_plan ==
    <<StepOf("acquire", "never",
             <<Acc("read", "latest_plan", 668), Acc("use", "plan", 673)>>),
      StepOf("release", "never", <<>>)>>

\* PUT /config (api.py lines 568-635), the whole handler under the lock.
update_config ==
    <<StepOf("acquire", "never",
             <<Acc("read", "settings", 573), Acc("write", "settings", 574),
               Acc("write", "dwell", 576), Acc("write", "executor", 600),
               Acc("read", "price_provider", 603), Acc("write", "price_provider", 617),
               Acc("write", "telemetry_reader", 619), Acc("read", "scheduler", 621),
               Acc("read", "settings", 630)>>),
      StepOf("release", "never", <<>>)>>

\* GET /prices (api.py lines 675-748).
get_prices ==
    <<StepOf("acquire", "never",
             <<Acc("read", "settings", 686), Acc("read", "price_provider", 687)>>),
      StepOf("release", "never", <<>>),
      StepOf("none", "never",
             <<Acc("read", "settings", 730), Acc("fetch", "price_provider", 748)>>)>>

\* GET /meters/series, the forecast part (api.py lines 917-927).
meters_series ==
    <<StepOf("acquire", "never",
             <<Acc("read", "forecast_provider", 919), Acc("read", "settings", 919)>>),
      StepOf("release", "never", <<>>),
      StepOf("none", "never", <<Acc("fetch", "forecast_provider", 923)>>)>>

\* GET /export (api.py lines 1078-1147).
export_series ==
    <<StepOf("acquire", "never", <<Acc("read", "latest_plan", 1085)>>),
      StepOf("release", "no_plan", <<>>),
      StepOf("none", "never",
             <<Acc("read", "settings", 1091), Acc("read", "price_provider", 1092),
               Acc("fetch", "price_provider", 1095), Acc("use", "plan", 1099)>>)>>

\* on_shutdown after scheduler.shutdown() (api.py lines 428-450).
on_shutdown ==
    <<StepOf("acquire", "never", <<Acc("read", "executor", 435)>>),
      StepOf("release", "never", <<>>),
      StepOf("none", "never", <<Acc("bus", "actuator", 444)>>)>>

\* The operations a thread runs; POST /recalc runs _recalc_plan on the request
\* thread.
Ops(t) ==
    IF t = "recalc_job" THEN {"_recalc_plan"}
    ELSE IF t = "control_job" THEN {"_do_control"}
    ELSE IF t = "telemetry_job" THEN {"telemetry_job"}
    ELSE {"force_recalc", "pause", "resume", "status", "get_plan", "update_config",
          "get_prices", "meters_series", "export_series", "on_shutdown"}

Program(op) ==
    IF op \in {"_recalc_plan", "force_recalc"} THEN recalc_plan
    ELSE IF op = "_do_control" THEN do_control
    ELSE IF op = "telemetry_job" THEN telemetry_job
    ELSE IF op = "pause" THEN pause
    ELSE IF op = "resume" THEN resume
    ELSE IF op = "status" THEN status
    ELSE IF op = "get_plan" THEN get_plan
    ELSE IF op = "update_config" THEN update_config
    ELSE IF op = "get_prices" THEN get_prices
    ELSE IF op = "meters_series" THEN meters_series
    ELSE IF op = "export_series" THEN export_series
    ELSE on_shutdown

Idle == [op |-> "idle", i |-> 0]
NoLocals == [now |-> None, slots |-> <<>>, built |-> None, plan |-> None, paused |-> FALSE]

\* One pass of the loop of build_plan: the PlanSlot is constructed, annotated
\* by _annotate_energy_and_costs and then appended (planner.py lines 53-67).
built_slot(k) == ExecSlot(k, IDLE, 0) @@ [annotated |-> TRUE]

Has(s, kind, field) ==
    \E i \in DOMAIN s.acc : s.acc[i].kind = kind /\ s.acc[i].field = field

\* The locals of a thread after step s.
locals_after(l, s) ==
    [now |-> IF Has(s, "clock", "now") THEN Some(now) ELSE l.now,
     slots |-> IF Has(s, "slot", "slots")
               THEN Append(l.slots, built_slot(Len(l.slots) + 1)) ELSE l.slots,
     built |-> IF Has(s, "plan", "plan")
               THEN Some([generated_at |-> Val(l.now), planning_window_seconds |-> 2,
                          slots |-> l.slots])
               ELSE l.built,
     plan |-> IF Has(s, "read", "latest_plan") THEN latest_plan ELSE l.plan,
     paused |-> IF Has(s, "read", "automation_paused") THEN automation_paused ELSE l.paused]

\* Whether the operation returns after step s.
exits(l, s) ==
    \/ s.exit = "paused_or_no_plan" /\ (l.paused \/ l.plan = None)
    \/ s.exit = "no_plan" /\ l.plan = None

LockInit ==
    /\ DwellIdle
    /\ DecideIdle
    /\ PlanIdle
    /\ ExecIdle
    /\ AppIdle
    /\ RecalcIdle
    /\ lock = None
    /\ pc = [t \in Threads |-> Idle]
    /\ local = [t \in Threads |-> NoLocals]

\* Thread t takes the next step of its operation; an idle thread starts
\* operation op with its first step.
LockStep(t, op) ==
    LET running == pc[t] # Idle
        o == IF running THEN pc[t].op ELSE op
        i == IF running THEN pc[t].i ELSE 1
        s == Program(o)[i]
        l == locals_after(IF running THEN local[t] ELSE NoLocals, s)
    IN  /\ s.lock = "acquire" => lock = None
        /\ lock' = IF s.lock = "acquire" THEN Some(t)
                   ELSE IF s.lock = "release" THEN None ELSE lock
        /\ latest_plan' = IF Has(s, "write", "latest_plan") THEN local[t].built
                          ELSE latest_plan
        /\ automation_paused' =
               IF Has(s, "write", "automation_paused")
               THEN s.acc[CHOOSE k \in DOMAIN s.acc : s.acc[k].field = "automation_paused"
                             /\ s.acc[k].kind = "write"].value
               ELSE automation_paused
        /\ last_control_at' = IF Has(s, "write", "last_control_at") THEN Some(now)
                              ELSE last_control_at
        /\ last_recalc_at' = IF Has(s, "write", "last_recalc_at") THEN local[t].now
                             ELSE last_recalc_at
        /\ IF i = Len(Program(o)) \/ exits(l, s)
           THEN /\ pc' = [pc EXCEPT ![t] = Idle]
                /\ local' = [local EXCEPT ![t] = NoLocals]
           ELSE /\ pc' = [pc EXCEPT ![t] = [op |-> o, i |-> i + 1]]
                /\ local' = [local EXCEPT ![t] = l]
        /\ UNCHANGED <<settings, executor, actuator, applied, call, dwellVars,
                       decideVars, planVars, appVars, price_provider, planner, rj>>

\* The clock advances between the steps of the threads.
LockTick ==
    /\ now < MaxLockTime
    /\ now' = now + 1
    /\ UNCHANGED <<dwell, sc, na, decideVars, planVars, execVars, lockVars, appVars, recalcVars>>

LockNext ==
    \/ LockTick
    \/ \E t \in Threads : \E op \in Ops(t) : LockStep(t, op)

SpecLock == LockInit /\ [][LockNext]_vars

\* ========================================================= SpecSettings
\* state.settings under PUT /config: settings that the constructor accepted,
\* then any sequence of updates, valid or not.
WindowValues == {30, 60, 300}
RecalcValues == {30, 300}
SocValues == {10, 50, 101}

Optional(S) == {None} \cup {Some(v) : v \in S}

ConfigUpdates ==
    [planning_window_seconds : Optional(WindowValues),
     recalculation_interval_seconds : Optional(RecalcValues),
     min_soc_percent : Optional(SocValues),
     max_soc_percent : Optional(SocValues),
     reserve_soc_percent : Optional(SocValues)]

SettingsInit ==
    /\ \E w \in WindowValues, r \in RecalcValues, lo \in SocValues, hi \in SocValues, re \in SocValues :
         /\ model_validate(HeliosSettings(w, r, lo, hi, re)) # None
         /\ settings = model_validate(HeliosSettings(w, r, lo, hi, re))
    /\ cfg = None
    /\ app = "init"
    /\ sched = None
    /\ inflight = {}
    /\ executor = None
    /\ latest_plan = None
    /\ automation_paused = FALSE
    /\ last_control_at = None
    /\ actuator = 0
    /\ applied = None
    /\ call = None
    /\ DwellIdle
    /\ DecideIdle
    /\ PlanIdle
    /\ LockIdle
    /\ RecalcIdle

\* update_config up to the assignment of state.settings: apply_to raises and
\* the handler answers 400, or state.settings becomes the new object.
PutConfig(update) ==
    LET r == apply_to(update, Val(settings))
    IN  /\ settings' = IF r = None THEN settings ELSE r
        /\ cfg' = Some([update |-> update, before |-> Val(settings),
                        outcome |-> IF r = None THEN "raised" ELSE "returned"])
        /\ UNCHANGED <<executor, latest_plan, automation_paused, last_control_at, actuator,
                       applied, call, app, sched, inflight, dwellVars, decideVars, planVars,
                       lockVars, recalcVars>>

SettingsNext ==
    \E update \in ConfigUpdates : PutConfig(update)

SpecSettings == SettingsInit /\ [][SettingsNext]_vars

\* ============================================================ SpecSched
\* The life of the application around its HeliosScheduler: on_startup, the
\* firings of the scheduler thread, POST /recalc, a settings change followed
\* by reschedule, and on_shutdown.  Time is abstract: a scheduled job may
\* become due at any moment.

Intervals(recalc, control, telemetry) ==
    [recalculation_interval_seconds |-> recalc,
     dbus_update_interval_seconds |-> control,
     telemetry_update_interval_seconds |-> telemetry]

SchedSettings ==
    {Intervals(300, 10, 10), Intervals(60, 5, 10), Intervals(150, 25, 19), Intervals(30, 1, 1)}

Execution(job, via, n) == [job |-> job, via |-> via, n |-> n]

schedFrame == <<executor, automation_paused, last_control_at, actuator, applied, call, dwellVars, decideVars, planVars, lockVars, recalcVars>>

SchedInit ==
    /\ app = "init"
    /\ sched = Some(HeliosScheduler)
    /\ inflight = {}
    /\ settings \in {Some(s) : s \in SchedSettings}
    /\ latest_plan = None
    /\ cfg = None
    /\ executor = None
    /\ automation_paused = FALSE
    /\ last_control_at = None
    /\ actuator = 0
    /\ applied = None
    /\ call = None
    /\ DwellIdle
    /\ DecideIdle
    /\ PlanIdle
    /\ LockIdle
    /\ RecalcIdle

\* on_startup calls HeliosScheduler.start.  start has the parameters
\* recalc_job, control_job and telemetry_job: a call that also passes
\* counters_job, as on_startup does, raises TypeError before the body runs.
\* Otherwise the BackgroundScheduler is started and _schedule_jobs begins.
Start(with_counters) ==
    /\ app = "init"
    /\ IF with_counters
       THEN /\ app' = "start_raised"
            /\ sched' = Some([Val(sched) EXCEPT !.error = "TypeError"])
       ELSE /\ app' = "starting"
            /\ sched' = Some([Val(sched) EXCEPT !.state = "running",
                                                !.todo = schedule_jobs(Val(settings))])
    /\ UNCHANGED <<inflight, settings, latest_plan, cfg, schedFrame>>

\* The next add_job call of the running _schedule_jobs.
AddJob ==
    /\ Val(sched).todo # <<>>
    /\ sched' = Some([Val(sched) EXCEPT !.jobs = add_job(@, Head(Val(sched).todo)),
                                        !.todo = Tail(@)])
    /\ UNCHANGED <<app, inflight, settings, latest_plan, cfg, schedFrame>>

\* start has returned; on_startup calls recalc_job() itself.
StartupRecalc ==
    /\ app = "starting"
    /\ Val(sched).todo = <<>>
    /\ app' = "priming_recalc"
    /\ inflight' = inflight \cup {Execution("recalc", "startup", 0)}
    /\ UNCHANGED <<sched, settings, latest_plan, cfg, schedFrame>>

\* The scheduler thread starts an execution of a due job.
Fire(id) ==
    /\ may_fire(Val(sched), inflight, id)
    /\ inflight' = inflight \cup {Execution(id, "scheduler", 0)}
    /\ UNCHANGED <<app, sched, settings, latest_plan, cfg, schedFrame>>

\* A job is due while its previous execution by the scheduler is in flight:
\* the firing is skipped.
Skip(id) ==
    /\ Val(sched).state = "running"
    /\ \E j \in Val(sched).jobs : j.id = id
    /\ \E e \in inflight : e.job = id /\ e.via = "scheduler"
    /\ sched' = Some([Val(sched) EXCEPT !.skipped = @ \cup {id}])
    /\ UNCHANGED <<app, inflight, settings, latest_plan, cfg, schedFrame>>

\* POST /recalc: request thread n runs _recalc_plan.
ForceRecalc(n) ==
    /\ app = "serving"
    /\ Execution("recalc", "api", n) \notin inflight
    /\ inflight' = inflight \cup {Execution("recalc", "api", n)}
    /\ UNCHANGED <<app, sched, settings, latest_plan, cfg, schedFrame>>

\* An execution ends.  _recalc_plan publishes its plan unless a provider
\* raised; nothing in recalc_job or _recalc_plan catches that exception, so in
\* on_startup it ends the startup.  After recalc_job() on_startup calls
\* telemetry_job(), which catches every exception.
Finish(e, raised) ==
    /\ e \in inflight
    /\ raised => e.job = "recalc"
    /\ latest_plan' = IF e.job = "recalc" /\ ~raised THEN Some(ExecPlan(IDLE, 0, IDLE, 0))
                      ELSE latest_plan
    /\ IF e.via = "startup" /\ e.job = "recalc" /\ raised
       THEN /\ app' = "recalc_raised"
            /\ inflight' = inflight \ {e}
       ELSE IF e.via = "startup" /\ e.job = "recalc"
       THEN /\ app' = "priming_telemetry"
            /\ inflight' = (inflight \ {e}) \cup {Execution("telemetry", "startup", 0)}
       ELSE IF e.via = "startup"
       THEN /\ app' = "serving"
            /\ inflight' = inflight \ {e}
       ELSE /\ app' = app
            /\ inflight' = inflight \ {e}
    /\ sched' = IF raised /\ e.via # "api"
                THEN Some([Val(sched) EXCEPT !.job_errors = @ \cup {e.job}])
                ELSE sched
    /\ UNCHANGED <<settings, cfg, schedFrame>>

\* update_config up to its call of reschedule (api.py lines 572-620):
\* state.settings is assigned.  cfg keeps the settings and the job store the
\* request found and how the handler ended.
SetIntervals(new) ==
    /\ app = "serving"
    /\ Val(sched).todo = <<>>
    /\ IF cfg = None THEN TRUE ELSE Val(cfg).outcome # "running"
    /\ settings # Some(new)
    /\ settings' = Some(new)
    /\ cfg' = Some([before |-> Val(settings), jobs_before |-> Val(sched).jobs,
                    outcome |-> "running"])
    /\ UNCHANGED <<app, sched, inflight, latest_plan, schedFrame>>

\* HeliosScheduler.reschedule: remove_all_jobs(), then _schedule_jobs begins.
\* A call that passes counters_job, as update_config does, raises TypeError
\* before the body runs; update_config turns every exception into HTTP 400.
Reschedule(with_counters) ==
    /\ app = "serving"
    /\ Val(sched).todo = <<>>
    /\ IF cfg = None THEN FALSE ELSE Val(cfg).outcome = "running"
    /\ IF with_counters
       THEN /\ sched' = Some([Val(sched) EXCEPT !.error = "TypeError"])
            /\ cfg' = Some([Val(cfg) EXCEPT !.outcome = "raised"])
       ELSE /\ sched' = Some([Val(sched) EXCEPT !.jobs = {},
                                                !.todo = schedule_jobs(Val(settings)),
                                                !.error = "none"])
            /\ cfg' = Some([Val(cfg) EXCEPT !.outcome = "returned"])
    /\ UNCHANGED <<app, inflight, settings, latest_plan, schedFrame>>

\* on_shutdown: HeliosScheduler.shutdown returns with the executions in flight
\* still running.
Shutdown ==
    /\ app = "serving"
    /\ Val(sched).todo = <<>>
    /\ sched' = Some(shutdown(Val(sched)))
    /\ app' = "stopped"
    /\ UNCHANGED <<inflight, settings, latest_plan, cfg, schedFrame>>

SchedNext ==
    \/ \E with_counters \in BOOLEAN : Start(with_counters)
    \/ AddJob
    \/ StartupRecalc
    \/ \E id \in JobIds : Fire(id)
    \/ \E id \in JobIds : Skip(id)
    \/ \E n \in 1..MaxRequests : ForceRecalc(n)
    \/ \E e \in inflight, raised \in BOOLEAN : Finish(e, raised)
    \/ \E new \in SchedSettings : SetIntervals(new)
    \/ \E with_counters \in BOOLEAN : Reschedule(with_counters)
    \/ Shutdown

SpecSched == SchedInit /\ [][SchedNext]_vars

\* ============================================================== SpecRace
\* The control job, POST /pause, POST /resume and on_shutdown as they
\* interleave.  A `with state.lock:` block is one step (the lock makes the
\* blocks exclude each other); what a handler does after its block, the bus
\* call, is a later step that runs with the values read in the block.  Of
\* the scheduler's jobs the specification follows the control job.
RaceThreads == {"control_job", "api"}
RaceLocals == [now |-> None, plan |-> None, paused |-> FALSE, reset |-> "none"]

RaceInit ==
    /\ DecideIdle
    /\ PlanIdle
    /\ RecalcIdle
    /\ now = 0
    /\ sc = None
    /\ na = None
    /\ settings \in {Some(s) : s \in ExecSettings}
    /\ dwell = configured_dwell(Val(settings))
    /\ executor = Some(select_executor(Val(settings)))
    /\ latest_plan = None
    /\ automation_paused = FALSE
    /\ last_control_at = None
    /\ actuator = 0
    /\ applied = None
    /\ call = None
    /\ lock = None
    /\ pc = [t \in RaceThreads |-> "idle"]
    /\ local = [t \in RaceThreads |-> RaceLocals]
    /\ cfg = None
    /\ app = "serving"
    /\ sched = Some([HeliosScheduler EXCEPT
                        !.state = "running",
                        !.jobs = {scheduled_job(Val(settings), "control")}])
    /\ inflight = {}

raceFrame == <<lock, cfg, inflight, decideVars, planVars, recalcVars>>

\* The control executions the scheduler started that have not returned.
ControlInFlight ==
    IF pc["control_job"] = "idle" THEN {} ELSE {Execution("control", "scheduler", 1)}

\* The scheduler fires the control job: _do_control up to the end of its
\* `with state.lock:` block and the two early returns (api.py lines 153-163).
ControlBegin ==
    /\ pc["control_job"] = "idle"
    /\ may_fire(Val(sched), ControlInFlight, "control")
    /\ last_control_at' = Some(now)
    /\ IF automation_paused \/ latest_plan = None
       THEN /\ call' = Some(NoCall(now, IF automation_paused THEN "paused" ELSE "no_plan"))
            /\ UNCHANGED <<pc, local>>
       ELSE /\ pc' = [pc EXCEPT !["control_job"] = "apply"]
            /\ local' = [local EXCEPT !["control_job"] =
                            [RaceLocals EXCEPT !.now = Some(now), !.plan = latest_plan]]
            /\ UNCHANGED call
    /\ UNCHANGED <<now, dwell, sc, na, settings, executor, latest_plan, automation_paused,
                   actuator, applied, app, sched, raceFrame>>

\* The rest of _do_control (api.py lines 165-170): the executor is read from
\* the state and called with the `now` and the plan of the locked block.
ControlApply(b) ==
    /\ pc["control_job"] = "apply"
    /\ LET l == local["control_job"]
           r == IF Val(executor).kind = "dbus"
                THEN dbus_apply_setpoint(Val(executor), Val(settings), dwell, actuator,
                                         Val(l.now), Val(l.plan), b)
                ELSE noop_apply_setpoint(Val(executor), dwell, actuator, Val(l.now),
                                         Val(l.plan))
       IN  /\ executor' = Some(r.executor)
           /\ dwell' = r.dwell
           /\ actuator' = r.actuator
           /\ applied' = IF r.call.reset = "ok" THEN Some(0)
                         ELSE IF r.call.writes # <<>>
                         THEN Some(r.call.writes[Len(r.call.writes)])
                         ELSE applied
           /\ call' = Some(r.call)
    /\ pc' = [pc EXCEPT !["control_job"] = "idle"]
    /\ local' = [local EXCEPT !["control_job"] = RaceLocals]
    /\ UNCHANGED <<now, sc, na, settings, latest_plan, automation_paused, last_control_at,
                   app, sched, raceFrame>>

\* POST /pause, the locked block (api.py lines 463-465).
PauseBegin ==
    /\ app = "serving"
    /\ pc["api"] = "idle"
    /\ automation_paused' = TRUE
    /\ pc' = [pc EXCEPT !["api"] = "pause_reset"]
    /\ local' = [local EXCEPT !["api"] = RaceLocals]
    /\ UNCHANGED <<now, dwell, sc, na, settings, executor, latest_plan, last_control_at,
                   actuator, applied, call, app, sched, raceFrame>>

\* The write of 0 by pause and by on_shutdown (api.py lines 467-482 and
\* 437-450) with the executor read in the locked block; a failure is logged
\* and swallowed.  local["api"].reset keeps what the log says.
Reset(ok) ==
    /\ pc["api"] \in {"pause_reset", "shutdown_reset"}
    /\ LET writes == Val(executor).kind = "dbus" /\ ok
       IN  /\ actuator' = IF writes THEN 0 ELSE actuator
           /\ applied' = IF writes THEN Some(0) ELSE applied
           /\ local' = [local EXCEPT !["api"].reset =
                           IF Val(executor).kind # "dbus" THEN "none"
                           ELSE IF ok THEN "ok" ELSE "failed"]
    /\ pc' = [pc EXCEPT !["api"] = "idle"]
    /\ UNCHANGED <<now, dwell, sc, na, settings, executor, latest_plan, automation_paused,
                   last_control_at, call, app, sched, raceFrame>>

\* POST /resume (api.py lines 486-490).
RaceResume ==
    /\ app = "serving"
    /\ pc["api"] = "idle"
    /\ automation_paused
    /\ automation_paused' = FALSE
    /\ local' = [local EXCEPT !["api"] = RaceLocals]
    /\ UNCHANGED <<now, dwell, sc, na, settings, executor, latest_plan, last_control_at,
                   actuator, applied, call, pc, app, sched, raceFrame>>

\* on_shutdown up to the end of its locked block (api.py lines 428-435):
\* scheduler.shutdown(wait=False), then the executor is read.
ShutdownBegin ==
    /\ app = "serving"
    /\ pc["api"] = "idle"
    /\ app' = "stopped"
    /\ sched' = Some(shutdown(Val(sched)))
    /\ pc' = [pc EXCEPT !["api"] = "shutdown_reset"]
    /\ local' = [local EXCEPT !["api"] = RaceLocals]
    /\ UNCHANGED <<now, dwell, sc, na, settings, executor, latest_plan, automation_paused,
                   last_control_at, actuator, applied, call, raceFrame>>

RaceNext ==
    \/ LockTick
    \/ \E p \in ExecPlans : PublishPlan(p)
    \/ ControlBegin
    \/ \E b \in ConfigBusBehaviours(Val(settings)) : ControlApply(b)
    \/ PauseBegin
    \/ \E ok \in BOOLEAN : Reset(ok)
    \/ RaceResume
    \/ ShutdownBegin

SpecRace == RaceInit /\ [][RaceNext]_vars

\* =========================================================== SpecRecalc
\* _recalc_plan step by step, one execution at a time, with update_config
\* running between its steps (update_config holds state.lock throughout, the
\* job only in its prologue and when it publishes).

ProviderSettings(provider, token, home, horizon, window) ==
    [price_provider |-> provider, tibber_token |-> token, tibber_home_id |-> home,
     planning_horizon_hours |-> horizon, planning_window_seconds |-> window]

RecalcSettings ==
    {ProviderSettings("stub", "", "", 1, 900),
     ProviderSettings("stub", "", "", 2, 900),
     ProviderSettings("tibber", "", "", 1, 900),
     ProviderSettings("tibber", "a", "", 1, 900),
     ProviderSettings("tibber", "a", "", 1, 3600),
     ProviderSettings("tibber", "b", "", 1, 900),
     ProviderSettings("tibber", "a", "h1", 1, 900)}

recalcFrame == <<cfg, executor, automation_paused, last_control_at, actuator, applied, call, dwell, sc, na, decideVars, planVars, lockVars, appVars>>

\* create_app: the Planner gets the settings object of that moment and the
\* provider is selected from it.
RecalcInit ==
    /\ now = 0
    /\ \E s \in RecalcSettings :
         /\ settings = Some(s)
         /\ planner = Some([settings |-> s])
         /\ price_provider = Some(select_price_provider(s, 1))
    /\ latest_plan = None
    /\ last_recalc_at = None
    /\ rj = None
    /\ dwell = DwellController(0, <<>>, None, None)
    /\ sc = None
    /\ na = None
    /\ cfg = None
    /\ executor = None
    /\ automation_paused = FALSE
    /\ last_control_at = None
    /\ actuator = 0
    /\ applied = None
    /\ call = None
    /\ DecideIdle
    /\ PlanIdle
    /\ LockIdle
    /\ AppIdle

RecalcTick ==
    /\ now < MaxLockTime
    /\ now' = now + 1
    /\ UNCHANGED <<settings, planner, price_provider, latest_plan, last_recalc_at, rj, recalcFrame>>

RecalcRunning == rj # None /\ Val(rj).pc = "running"

\* The step a running _recalc_plan is at.
RecalcAt(step) == RecalcRunning /\ recalc_steps[Val(rj).i] = step

\* What a step leaves in rj: the next step, or the end of the call.
Advanced(r) == IF r.i = Len(recalc_steps) THEN [r EXCEPT !.pc = "done"] ELSE [r EXCEPT !.i = @ + 1]

\* Lines 86-117: the clock is read and, under the lock, the settings are
\* snapshotted, the provider is kept or replaced, and the horizon is read.
RecalcBegin ==
    /\ ~RecalcRunning
    /\ LET s == Val(settings)
           new == needs_new(s, price_provider)
           id == IF price_provider = None THEN 1 ELSE Val(price_provider).id + 1
           provider_to_use == IF new THEN select_price_provider(s, id) ELSE Val(price_provider)
       IN  /\ new => id <= MaxProviders
           /\ price_provider' = Some(provider_to_use)
           /\ rj' = Some([pc |-> "running", i |-> 1, now |-> now, settings_snapshot |-> s,
                          provider_to_use |-> provider_to_use,
                          horizon_hours |-> s.planning_horizon_hours,
                          before |-> [latest_plan |-> latest_plan,
                                      last_recalc_at |-> last_recalc_at],
                          requested |-> FALSE, plan |-> None])
    /\ UNCHANGED <<now, settings, planner, latest_plan, last_recalc_at, recalcFrame>>

\* Lines 119-122: provider_to_use.get_prices, outside the lock.  The cache is
\* part of the instance: the job fills the instance it holds, which is
\* state.price_provider unless update_config has replaced that meanwhile.
RecalcFetch(upstream) ==
    /\ RecalcAt("fetch")
    /\ LET r == Val(rj)
           shared == Val(price_provider).id = r.provider_to_use.id
           p == IF shared THEN Val(price_provider) ELSE r.provider_to_use
           g == provider_get_prices(p, upstream)
           filled == [p EXCEPT !.cached = g.cached]
           after == [r EXCEPT !.requested = g.requested, !.provider_to_use = filled]
       IN  /\ price_provider' = IF shared THEN Some(filled) ELSE price_provider
           /\ rj' = Some(IF g.raised THEN [after EXCEPT !.pc = "raised"] ELSE Advanced(after))
    /\ UNCHANGED <<now, settings, planner, latest_plan, last_recalc_at, recalcFrame>>

\* Lines 123-137: the forecast provider is chosen and asked for the solar and
\* load forecasts; only the choice is inside a try block.
RecalcForecast(raised) ==
    /\ RecalcAt("forecast")
    /\ rj' = Some(IF raised THEN [Val(rj) EXCEPT !.pc = "raised"] ELSE Advanced(Val(rj)))
    /\ UNCHANGED <<now, settings, planner, price_provider, latest_plan, last_recalc_at, recalcFrame>>

\* Lines 139-145: state.planner.build_plan(price_series, now, ...).
RecalcBuild ==
    /\ RecalcAt("build")
    /\ rj' = Some([Advanced(Val(rj)) EXCEPT !.plan = Some(build_plan_of(Val(planner), Val(rj).now))])
    /\ UNCHANGED <<now, settings, planner, price_provider, latest_plan, last_recalc_at, recalcFrame>>

\* Lines 146-148: the plan and the time are published under the lock.
RecalcPublish ==
    /\ RecalcAt("publish")
    /\ latest_plan' = Val(rj).plan
    /\ last_recalc_at' = Some(Val(rj).now)
    /\ rj' = Some(Advanced(Val(rj)))
    /\ UNCHANGED <<now, settings, planner, price_provider, recalcFrame>>

\* update_config, under the lock: state.settings is replaced and the price
\* provider is swapped when its class, token or home id differ from the
\* desired one.  state.planner is not touched.
UpdateProviderConfig(new) ==
    /\ settings # Some(new)
    /\ LET id == Val(price_provider).id + 1
           desired_provider == select_price_provider(new, id)
           swap == swap_provider(price_provider, desired_provider)
       IN  /\ swap => id <= MaxProviders
           /\ price_provider' = IF swap THEN Some(desired_provider) ELSE price_provider
    /\ settings' = Some(new)
    /\ UNCHANGED <<now, planner, latest_plan, last_recalc_at, rj, recalcFrame>>

RecalcNext ==
    \/ RecalcTick
    \/ RecalcBegin
    \/ \E upstream \in {"ok", "empty", "error"} : RecalcFetch(upstream)
    \/ \E raised \in BOOLEAN : RecalcForecast(raised)
    \/ RecalcBuild
    \/ RecalcPublish
    \/ \E new \in RecalcSettings : UpdateProviderConfig(new)

SpecRecalc == RecalcInit /\ [][RecalcNext]_vars

\* ------------------------------------------------------ SpecDwell: claims
\* The dwell the claim expects for the recorded action: the per-action entry
\* when there is one, the global minimum otherwise.
ClaimRequired(d) ==
    IF Val(d.last_action) \in DOMAIN d.per_action_dwell_seconds
    THEN d.per_action_dwell_seconds[Val(d.last_action)]
    ELSE d.minimum_dwell_seconds

\* C1: should_change(B, t) with a recorded last_action A # B is true iff
\* required <= 0, or no last_action_at is recorded, or t - last_action_at >=
\* required (per-action dwell of A when it has an entry, the global minimum
\* otherwise), so with dwell D > 0 noted at t0 it is false for t0 < t < t0+D
\* and true for t >= t0+D; should_change(A, t) for A = last_action and any
\* call with no recorded action are true.
C1_ShouldChange ==
    sc # None =>
        LET c == Val(sc)
            d == c.before
        IN  IF d.last_action = None \/ d.last_action = Some(c.new_action)
            THEN c.result = TRUE
            ELSE /\ c.result <=> \/ ClaimRequired(d) <= 0
                                 \/ d.last_action_at = None
                                 \/ c.at - Val(d.last_action_at) >= ClaimRequired(d)
                 /\ (d.last_action_at # None /\ ClaimRequired(d) > 0) =>
                        LET t0 == Val(d.last_action_at)
                        IN  /\ (t0 < c.at /\ c.at < t0 + ClaimRequired(d)) => c.result = FALSE
                            /\ c.at >= t0 + ClaimRequired(d) => c.result = TRUE

\* C1 witness: a change to a different action refused inside the dwell that a
\* per-action entry sets while the global minimum is 0.
C1_Witness ==
    /\ sc # None
    /\ Val(sc).result = FALSE
    /\ Val(sc).before.minimum_dwell_seconds = 0
    /\ Val(sc).before.last_action_at # None
    /\ Val(sc).at > Val(Val(sc).before.last_action_at)

\* ------------------------------------------------------- SpecPlan: claims
\* C6: build_plan returns slots sorted by start, each with start < end, each
\* ending where the next starts, the first starting at `start` (top of the
\* hour when 3600 % window = 0, `now` otherwise) and the last ending at start +
\* horizon; there are ceil(horizon_seconds / window) slots and only the last
\* may be shorter than the window.
C6_PlanCoverage ==
    plan # None =>
        LET sl == Val(plan).slots
            n == Len(sl)
            w == Val(pIn).settings.planning_window_seconds
            horizon == 3600 * Val(pIn).settings.planning_horizon_hours
            t == Val(pIn).now
            start == IF 3600 % w = 0 THEN t - (t % 3600) ELSE t
        IN  /\ n = (horizon + w - 1) \div w
            /\ n >= 1
            /\ sl[1].start = start
            /\ sl[n].end = start + horizon
            /\ \A i \in 1..n : sl[i].start < sl[i].end
            /\ \A i \in 1..(n - 1) :
                   /\ sl[i].end = sl[i + 1].start
                   /\ sl[i].start < sl[i + 1].start
                   /\ sl[i].end - sl[i].start = w
            /\ sl[n].end - sl[n].start <= w

\* C6 witness: a plan that starts at `now` off the hour, with several slots of
\* which the last is shorter than the window.
C6_Witness ==
    /\ plan # None
    /\ Len(Val(plan).slots) > 1
    /\ Val(plan).slots[1].start = Val(pIn).now
    /\ Val(pIn).now % 3600 # 0
    /\ LET last == Val(plan).slots[Len(Val(plan).slots)]
       IN  last.end - last.start < Val(plan).planning_window_seconds

\* C7: slot_for(t) on a built plan returns the one slot with start <= t < end
\* when t is inside the covered range, none when t is before the first start
\* or at or after the last end, and leaves the plan unchanged.
C7_SlotFor ==
    q # None =>
        LET c == Val(q)
            sl == c.before.slots
            inside == sl[1].start <= c.at /\ c.at < sl[Len(sl)].end
        IN  /\ plan = Some(c.before)
            /\ inside =>
                   /\ c.result # None
                   /\ \E i \in DOMAIN sl : sl[i] = Val(c.result)
                   /\ Val(c.result).start <= c.at
                   /\ c.at < Val(c.result).end
                   /\ Cardinality({i \in DOMAIN sl :
                                      sl[i].start <= c.at /\ c.at < sl[i].end}) = 1
            /\ ~inside => c.result = None

\* C7 witness: a lookup exactly on the boundary between two slots, answered
\* with the later slot.
C7_Witness ==
    /\ q # None
    /\ Val(q).result # None
    /\ Val(Val(q).result).start = Val(q).at
    /\ Val(q).at > Val(q).before.slots[1].start

\* The slots build_plan has appended so far, and those of the returned Plan.
BuiltSlots ==
    (IF bp = None THEN {} ELSE {Val(bp).slots[i] : i \in DOMAIN Val(bp).slots})
        \cup (IF plan = None THEN {} ELSE {Val(plan).slots[i] : i \in DOMAIN Val(plan).slots})

\* C11: every slot build_plan produces has a setpoint whose sign agrees with
\* its action: CHARGE_FROM_GRID has setpoint >= 0, EXPORT_TO_GRID has
\* setpoint <= 0 and IDLE has setpoint 0.
C11_SignConsistent ==
    \A slot \in BuiltSlots :
        /\ slot.action = CHARGE_FROM_GRID => slot.target_grid_setpoint_w >= 0
        /\ slot.action = EXPORT_TO_GRID => slot.target_grid_setpoint_w <= 0
        /\ slot.action = IDLE => slot.target_grid_setpoint_w = 0

\* C11 witness: a returned Plan that holds a charging slot with a positive
\* setpoint and an exporting slot with a negative one.
C11_Witness ==
    /\ plan # None
    /\ \E i, j \in DOMAIN Val(plan).slots :
        /\ Val(plan).slots[i].action = CHARGE_FROM_GRID
        /\ Val(plan).slots[i].target_grid_setpoint_w > 0
        /\ Val(plan).slots[j].action = EXPORT_TO_GRID
        /\ Val(plan).slots[j].target_grid_setpoint_w < 0

\* C12: with a non-empty price series every window is decided on the raw price
\* of a series entry nearest in time to the window midpoint, whatever its
\* value (positive, zero or negative); the pivot stands in for the window
\* price only when the series is empty.
C12_NearestRawPrice ==
    \A slot \in BuiltSlots :
        LET series == Val(pIn).price_series
            dist(i) == Abs(2 * series[i][1] - (slot.start + slot.end))
        IN  IF Len(series) = 0
            THEN slot.price_mid = slot.pivot
            ELSE \E i \in DOMAIN series :
                    /\ \A j \in DOMAIN series : dist(i) <= dist(j)
                    /\ slot.price_mid = series[i][2]

\* ----------------------------------------------------- SpecDecide: claims
\* The limits as the specification defines them: a grid limit is 0 when
\* unset, a battery limit falls back to the grid limit only when unset.
ClaimGridLimit(x) == IF x = None THEN 0 ELSE Val(x)
ClaimBatteryLimit(x, grid) == IF x = None THEN grid ELSE Val(x)

DCheap == buy_price_of(Val(dIn).settings, Val(dIn).price_mid)
              <= Val(dIn).pivot - Val(dIn).settings.price_hysteresis
DExpensive == sell_price_of(Val(dIn).settings, Val(dIn).price_mid)
                  >= Val(dIn).pivot + Val(dIn).settings.price_hysteresis
DImport == ClaimGridLimit(Val(dIn).settings.grid_import_limit_w)
DExport == ClaimGridLimit(Val(dIn).settings.grid_export_limit_w)
DSoc == Val(dIn).settings.assumed_current_soc_percent
DChargeBranch == DCheap /\ DImport > 0

\* C8: a cheap price with import_limit > 0 and SoC unknown or below max gives
\* CHARGE_FROM_GRID with setpoint = min(import_limit, battery_charge_limit) > 0,
\* battery_charge_limit being the configured value and import_limit only when
\* the value is unset.
C8_ChargeWhenCheap ==
    dOut # None =>
        LET s == Val(dIn).settings
            battery_charge_limit == ClaimBatteryLimit(s.battery_charge_limit_w, DImport)
        IN  (DChargeBranch /\ (DSoc = None \/ Val(DSoc) < s.max_soc_percent)) =>
                /\ Val(dOut).action = CHARGE_FROM_GRID
                /\ Val(dOut).setpoint = Min(DImport, battery_charge_limit)
                /\ Val(dOut).setpoint > 0

\* C9: EXPORT_TO_GRID exactly when the charge branch is not taken, selling is
\* enabled, the price is expensive, export_limit > 0 and the SoC is unknown or
\* above the reserve; the setpoint is then -min(export_limit,
\* battery_discharge_limit) < 0; never EXPORT_TO_GRID with selling disabled or
\* when the charge branch is taken.
C9_ExportWhenExpensive ==
    dOut # None =>
        LET s == Val(dIn).settings
            battery_discharge_limit == ClaimBatteryLimit(s.battery_discharge_limit_w, DExport)
        IN  /\ Val(dOut).action = EXPORT_TO_GRID <=>
                   /\ ~DChargeBranch
                   /\ s.grid_sell_enabled
                   /\ DExpensive
                   /\ DExport > 0
                   /\ (DSoc = None \/ Val(DSoc) > s.reserve_soc_percent)
            /\ Val(dOut).action = EXPORT_TO_GRID =>
                   /\ Val(dOut).setpoint = 0 - Min(DExport, battery_discharge_limit)
                   /\ Val(dOut).setpoint < 0
            /\ ~s.grid_sell_enabled => Val(dOut).action # EXPORT_TO_GRID
            /\ (DCheap /\ DExpensive /\ DImport > 0) => Val(dOut).action # EXPORT_TO_GRID

\* C10 as stated: with the SoC set and >= max nothing is CHARGE_FROM_GRID (a
\* cheap price with import_limit > 0 gives IDLE, 0); with the SoC set and <=
\* reserve nothing is EXPORT_TO_GRID (an expensive price gives IDLE, 0).
C10_Original ==
    dOut # None =>
        LET s == Val(dIn).settings
        IN  /\ (DSoc # None /\ Val(DSoc) >= s.max_soc_percent) =>
                   /\ Val(dOut).action # CHARGE_FROM_GRID
                   /\ DChargeBranch => Val(dOut) = [action |-> IDLE, setpoint |-> 0]
            /\ (DSoc # None /\ Val(DSoc) <= s.reserve_soc_percent) =>
                   /\ Val(dOut).action # EXPORT_TO_GRID
                   /\ DExpensive => Val(dOut) = [action |-> IDLE, setpoint |-> 0]

\* C10 amended: as C10, except that with the SoC set and <= reserve an
\* expensive price gives IDLE, 0 only when the charge branch is not taken (a
\* price that is also cheap with import_limit > 0 and SoC below max charges).
C10_SocPolicy ==
    dOut # None =>
        LET s == Val(dIn).settings
        IN  /\ (DSoc # None /\ Val(DSoc) >= s.max_soc_percent) =>
                   /\ Val(dOut).action # CHARGE_FROM_GRID
                   /\ DChargeBranch => Val(dOut) = [action |-> IDLE, setpoint |-> 0]
            /\ (DSoc # None /\ Val(DSoc) <= s.reserve_soc_percent) =>
                   /\ Val(dOut).action # EXPORT_TO_GRID
                   /\ (DExpensive /\ ~DChargeBranch) =>
                          Val(dOut) = [action |-> IDLE, setpoint |-> 0]
                   /\ (DExpensive /\ DChargeBranch /\ Val(DSoc) < s.max_soc_percent) =>
                          Val(dOut).action = CHARGE_FROM_GRID

\* C10 witness: the SoC at the reserve blocks an export that price, limits and
\* the sell switch would otherwise allow.
C10_Witness ==
    /\ dOut # None
    /\ DSoc # None
    /\ Val(DSoc) <= Val(dIn).settings.reserve_soc_percent
    /\ DExpensive
    /\ ~DChargeBranch
    /\ Val(dIn).settings.grid_sell_enabled
    /\ DExport > 0
    /\ Val(dOut) = [action |-> IDLE, setpoint |-> 0]

\* C13: when both adjusted prices lie strictly inside the hysteresis band
\* around the pivot (pivot - hysteresis < buy_price and sell_price < pivot +
\* hysteresis), _decide_action returns IDLE with setpoint 0 whatever the grid
\* and battery limits, grid_sell_enabled and the assumed SoC are.
C13_IdleInsideBand ==
    dOut # None =>
        LET s == Val(dIn).settings
            buy_price == Val(dIn).price_mid * s.buy_price_multiplier + s.buy_price_fixed_fee
            sell_price == Val(dIn).price_mid * s.sell_price_multiplier
                              - s.sell_price_fixed_deduction
        IN  ( /\ Val(dIn).pivot - s.price_hysteresis < buy_price
              /\ sell_price < Val(dIn).pivot + s.price_hysteresis )
            => Val(dOut) = [action |-> IDLE, setpoint |-> 0]

\* C13 witness: a decision taken strictly inside a band of positive width
\* with import and export limits set, selling enabled and the SoC between
\* reserve and max, so that nothing but the prices keeps the slot idle.
C13_Witness ==
    /\ dOut # None
    /\ Val(dOut).action = IDLE
    /\ LET s == Val(dIn).settings
       IN  /\ s.price_hysteresis > 0
           /\ s.buy_price_fixed_fee > 0
           /\ Val(dIn).pivot - s.price_hysteresis
                  < Val(dIn).price_mid * s.buy_price_multiplier + s.buy_price_fixed_fee
           /\ Val(dIn).price_mid * s.sell_price_multiplier - s.sell_price_fixed_deduction
                  < Val(dIn).pivot + s.price_hysteresis
           /\ s.grid_import_limit_w = Some(1500)
           /\ s.grid_export_limit_w = Some(2000)
           /\ s.grid_sell_enabled
           /\ s.assumed_current_soc_percent = Some(50)

\* ----------------------------------------------------------- Spec: claims
\* A step of the control job: it records its run and leaves the clock, the published plan, the pause flag, the settings and the
\* identity of the executor alone (a configuration update installs a fresh
\* executor, which has no last setpoint).
ControlStep ==
    /\ now' = now
    /\ latest_plan' = latest_plan
    /\ automation_paused' = automation_paused
    /\ settings' = settings
    /\ Val(executor).last_setpoint_w # None => Val(executor').last_setpoint_w # None
    /\ call' # None

\* The slot the control job resolves in the current state, if it gets that far.
ResolvedSlot ==
    IF automation_paused \/ latest_plan = None THEN None
    ELSE slot_for(Val(latest_plan), now)

\* C2: a call whose slot action differs from dwell.last_action before the
\* required dwell of last_action has elapsed writes nothing to the actuator
\* and changes neither the DwellController nor the executor's last applied
\* setpoint; so last_action changes from A to B # A only at a time >=
\* last_action_at + required(A).
C2_DwellGating ==
    [][ControlStep =>
        /\ ( /\ ResolvedSlot # None
             /\ dwell.last_action # None
             /\ dwell.last_action # Some(Val(ResolvedSlot).action)
             /\ dwell.last_action_at # None
             /\ now < Val(dwell.last_action_at) + ClaimRequired(dwell) )
           => /\ dwell' = dwell
              /\ executor' = executor
              /\ actuator' = actuator
              /\ Val(call').writes = <<>>
              /\ Val(call').reset = "none"
        /\ (dwell.last_action # None /\ dwell'.last_action # dwell.last_action)
           => now >= Val(dwell.last_action_at) + ClaimRequired(dwell)
      ]_vars

\* C2 witness: a control run refused by the dwell: the slot asks for another
\* action than the one recorded, inside its dwell.
C2_Witness ==
    /\ call # None
    /\ Val(call).outcome = "dwell_blocked"
    /\ last_control_at = Some(now)
    /\ dwell.last_action # Val(call).action
    /\ now < Val(dwell.last_action_at) + ClaimRequired(dwell)
    /\ now > Val(dwell.last_action_at)

C4_NeverRaises ==
    call # None => ~Val(call).raised

\* C5: whenever a step of the write or verify path fails (bus connect, initial
\* write after its retries, read-back, re-assert write), a reset-to-0 write is
\* attempted and the apply-failure counter is incremented exactly once, also
\* when the reset attempt itself fails.
C5_FailSafeOnEveryFailure ==
    call # None =>
        (Val(call).failure # "none" =>
            /\ Val(call).reset # "none"
            /\ Val(call).apply_failures = 1)


\* C14: with grid_ramp_w_per_second configured, every value DbusExecutor
\* writes for a slot differs from the value the program applied to the
\* actuator before by at most grid_ramp_w_per_second *
\* dbus_update_interval_seconds, also after fail-safe resets, pause resets and
\* the replacement of the executor by a configuration update.
C14_RampBound ==
    [][( /\ ControlStep
         /\ Val(settings).grid_ramp_w_per_second # None
         /\ applied # None
         /\ Val(call').writes # <<>> )
       => Abs(Val(call').writes[1] - Val(applied))
              <= Val(Val(settings).grid_ramp_w_per_second)
                     * Val(settings).dbus_update_interval_seconds
      ]_vars

\* C15: after a successful initial write the verify loop reads the actuator
\* back at most dbus_reassert_attempts times and writes the target again after
\* each mismatching read; when a read matches, the loop stops with the
\* actuator holding the target; when every attempt mismatched and the final
\* read still mismatches, exactly one misapplied event is recorded and
\* apply_setpoint returns normally.
C15_VerifyAndReassert ==
    [][(ControlStep /\ Val(call').writes # <<>>) =>
        LET c == Val(call')
            N == Max(0, Val(settings).dbus_reassert_attempts)
            final_reads == IF c.reasserts = N /\ c.failure # "reassert" THEN 1 ELSE 0
            loop_reads == c.reads - final_reads
            matched == c.failure = "none" /\ c.reads = c.reasserts + 1 /\ c.misapplies = 0
        IN  /\ loop_reads <= N
            /\ c.reasserts <= loop_reads
            /\ Len(c.writes) = 1 + c.reasserts - (IF c.failure = "reassert" THEN 1 ELSE 0)
            /\ \A i \in DOMAIN c.writes : c.writes[i] = Val(c.target)
            /\ matched => actuator' = Val(c.target)
            /\ (c.failure = "none" /\ ~matched) <=> c.misapplies = 1
            /\ c.misapplies = 1 =>
                  /\ c.reasserts = N
                  /\ actuator' # Val(c.target)
                  /\ ~c.raised
                  /\ c.apply_failures = 0
      ]_vars

\* C15 witness: a run in which every read-back of the loop and the final read
\* mismatched: the target was written again after each attempt, one misapplied
\* event was recorded and the call returned normally.
C15_Witness ==
    /\ call # None
    /\ Val(settings).dbus_reassert_attempts >= 1
    /\ Val(call).reasserts = Val(settings).dbus_reassert_attempts
    /\ Len(Val(call).writes) = 1 + Val(settings).dbus_reassert_attempts
    /\ Val(call).misapplies = 1
    /\ ~Val(call).raised

\* C16: a control tick that observes automation_paused = true sets
\* last_control_at to its tick time, does not invoke the executor, writes
\* nothing to the actuator and leaves the DwellController as it was; a tick
\* that observes automation_paused = false with a plan present invokes the
\* executor exactly once.
C16_PausedTick ==
    [][ControlStep =>
        /\ last_control_at' = Some(now)
        /\ automation_paused =>
              /\ Val(call') = NoCall(now, "paused")
              /\ dwell' = dwell
              /\ executor' = executor
              /\ actuator' = actuator
              /\ applied' = applied
        /\ (~automation_paused /\ latest_plan # None) =>
              /\ Val(call').outcome \in {"no_slot", "dwell_blocked", "applied", "failed"}
              /\ Val(call').when = now
      ]_vars

\* C16 witness: a paused tick after an earlier tick has applied a setpoint and
\* recorded an action, at a time when the plan asks for another action and the
\* dwell would allow it.
C16_Witness ==
    /\ automation_paused
    /\ call # None
    /\ Val(call).outcome = "paused"
    /\ last_control_at = Some(now)
    /\ latest_plan # None
    /\ slot_for(Val(latest_plan), now) # None
    /\ dwell.last_action # None
    /\ dwell.last_action # Some(Val(slot_for(Val(latest_plan), now)).action)
    /\ should_change(dwell, Val(slot_for(Val(latest_plan), now)).action, now)

\* Some slot of plan p covers time t.
ClaimCovered(p, t) ==
    \E i \in DOMAIN p.slots : p.slots[i].start <= t /\ t < p.slots[i].end

\* C17: a control tick with no Plan published yet, and an apply_setpoint call
\* at a time no slot of the plan covers, write nothing to the actuator, leave
\* the DwellController and the executor's last applied setpoint as they were
\* and return without error.
C17_NoPlanNoSlot ==
    [][( /\ ControlStep
         /\ ~automation_paused
         /\ (latest_plan = None \/ ~ClaimCovered(Val(latest_plan), now)) )
       => /\ dwell' = dwell
          /\ executor' = executor
          /\ actuator' = actuator
          /\ applied' = applied
          /\ Val(call').writes = <<>>
          /\ Val(call').reset = "none"
          /\ ~Val(call').raised
      ]_vars

\* C17 witness: a tick past the end of the published plan, after earlier
\* ticks have applied a setpoint and recorded an action.
C17_Witness ==
    /\ call # None
    /\ ~automation_paused
    /\ Val(call).outcome = "no_slot"
    /\ Val(call).when = now
    /\ latest_plan # None
    /\ ~ClaimCovered(Val(latest_plan), now)
    /\ dwell.last_action # None
    /\ Val(executor).last_setpoint_w # None

\* ---------------------------------------------------------- SpecLock: claims
\* The step thread t takes in the current transition, if it takes one.
Moves(t) == pc'[t] # pc[t]
StepTaken(t) ==
    IF pc[t] = Idle THEN Program(pc'[t].op)[1] ELSE Program(pc[t].op)[pc[t].i]
\* Thread t holds state.lock while it makes the accesses of the step.
HoldsLock(t) == lock' = Some(t) \/ (StepTaken(t).lock = "release" /\ lock = Some(t))

\* A Plan with all its slots, each annotated.
ClaimComplete(p) ==
    /\ Len(p.slots) = MaxSlots
    /\ \A k \in DOMAIN p.slots : p.slots[k].annotated

\* C18: a thread that reads state.latest_plan obtains the Plan published
\* before or the newly built one, complete with all slots and annotations,
\* never a partially constructed one; once a Plan is assigned to
\* state.latest_plan nothing changes it: the field only ever changes to a
\* Plan some thread has just finished building, and a snapshot a reader holds
\* stays as it was read.
C18_PlanPublishedWhole ==
    [][ /\ latest_plan' # None => ClaimComplete(Val(latest_plan'))
        /\ latest_plan' # latest_plan =>
               \E t \in Threads : Moves(t) /\ local[t].built = latest_plan'
        /\ \A t \in Threads :
               /\ local'[t].plan # None => ClaimComplete(Val(local'[t].plan))
               /\ local'[t].plan # local[t].plan =>
                      local'[t].plan \in {None, latest_plan, latest_plan'}
      ]_vars

\* C18 witness: the control job still holds the Plan it read while a newer
\* Plan is published and a request thread is half way through building the
\* next one.
C18_Witness ==
    /\ local["control_job"].plan # None
    /\ latest_plan # None
    /\ Val(latest_plan).generated_at > Val(local["control_job"].plan).generated_at
    /\ pc["api"] # Idle
    /\ pc["api"].op = "force_recalc"
    /\ Len(local["api"].slots) > 0
    /\ Len(local["api"].slots) < MaxSlots

SharedFields ==
    {"latest_plan", "settings", "last_recalc_at", "last_control_at", "automation_paused",
     "price_provider", "forecast_provider", "executor", "planner", "telemetry_reader"}

\* C19: every read and every write of a shared HeliosState field by the
\* recalc job, the control job, the telemetry job or an API handler is made
\* while that thread holds state.lock.
C19_AccessUnderLock ==
    [][\A t \in Threads :
          Moves(t) =>
              \A k \in DOMAIN StepTaken(t).acc :
                  ( /\ StepTaken(t).acc[k].kind \in {"read", "write"}
                    /\ StepTaken(t).acc[k].field \in SharedFields )
                  => HoldsLock(t)
      ]_vars

\* C20: no thread holds state.lock while it fetches from a price or forecast
\* provider or writes to the actuator: the lock is released before such I/O.
C20_NoIoUnderLock ==
    [][\A t \in Threads :
          Moves(t) =>
              \A k \in DOMAIN StepTaken(t).acc :
                  StepTaken(t).acc[k].kind \in {"fetch", "bus"}
                      => (lock # Some(t) /\ lock' # Some(t))
      ]_vars

\* C20 witness: the pause handler has written to the bus, after setting the
\* flag under the lock, while the recalc job is past its fetches and the
\* control job holds the lock.
C20_Witness ==
    /\ pc["api"] = [op |-> "pause", i |-> 4]
    /\ automation_paused
    /\ lock = Some("control_job")
    /\ pc["recalc_job"] # Idle
    /\ pc["recalc_job"].i > 3

\* ------------------------------------------------ SpecDwell: frame claims
\* C30: last_action and last_action_at change only in note_action(a, now)
\* with a # last_action, which sets them to (a, now); should_change modifies
\* nothing; note_action(a, now) with a = last_action leaves last_action_at
\* as it was, so repeating the same action never restarts the dwell timer.
C30_DwellFrame ==
    [][/\ (dwell'.last_action # dwell.last_action
           \/ dwell'.last_action_at # dwell.last_action_at) =>
              /\ na' # None
              /\ Val(na').before = dwell
              /\ Some(Val(na').action) # dwell.last_action
              /\ dwell'.last_action = Some(Val(na').action)
              /\ dwell'.last_action_at = Some(Val(na').at)
              /\ Val(na').at = now
       /\ sc' # None => dwell' = dwell
       /\ (na' # None /\ Some(Val(na').action) = dwell.last_action) => dwell' = dwell
       /\ dwell'.minimum_dwell_seconds = dwell.minimum_dwell_seconds
       /\ dwell'.per_action_dwell_seconds = dwell.per_action_dwell_seconds]_vars

\* C30 witness: the recorded action was noted again at a later time and the
\* timer still shows the earlier time.
C30_Witness ==
    /\ na # None
    /\ Val(na).before.last_action = Some(Val(na).action)
    /\ Val(na).before.last_action_at # None
    /\ Val(na).at > Val(Val(na).before.last_action_at)
    /\ dwell.last_action_at = Val(na).before.last_action_at

\* --------------------------------------------------- SpecSettings: claims
\* C28: state.settings always satisfies recalculation_interval_seconds <=
\* planning_window_seconds and 0 <= min_soc <= reserve_soc <= max_soc <= 100;
\* apply_to either returns a new settings object with these invariants or
\* raises and leaves the settings it was applied to unchanged.
C28_SettingsInvariants ==
    LET s == Val(settings)
    IN  /\ s.recalculation_interval_seconds <= s.planning_window_seconds
        /\ 0 <= s.min_soc_percent
        /\ s.min_soc_percent <= s.reserve_soc_percent
        /\ s.reserve_soc_percent <= s.max_soc_percent
        /\ s.max_soc_percent <= 100
        /\ cfg # None =>
              IF Val(cfg).outcome = "raised"
              THEN s = Val(cfg).before
              ELSE \A f \in DOMAIN s :
                     s[f] = IF Val(cfg).update[f] # None THEN Val(Val(cfg).update[f])
                            ELSE Val(cfg).before[f]

\* C28 witness: an update that raises the recalculation interval above the
\* planning window was refused and the settings are the ones from before.
C28_Witness ==
    /\ cfg # None
    /\ Val(cfg).outcome = "raised"
    /\ Val(cfg).update.recalculation_interval_seconds # None
    /\ Val(cfg).update.planning_window_seconds = None
    /\ Val(Val(cfg).update.recalculation_interval_seconds) > Val(settings).planning_window_seconds
    /\ Val(Val(cfg).update.recalculation_interval_seconds) >= 30
    /\ Val(settings) = Val(cfg).before

\* ------------------------------------------------------ SpecSched: claims
\* C21: no two executions of the same named job are in flight together,
\* however the execution was started (scheduled firing, startup
\* recalculation, POST /recalc).
C21_OneExecutionPerJob ==
    \A id \in JobIds : Cardinality({e \in inflight : e.job = id}) <= 1

\* start has returned to its caller.
StartReturned ==
    /\ app \notin {"init", "start_raised"}
    /\ ~(app = "starting" /\ Val(sched).todo # <<>>)

\* C22: reschedule replaces the jobs atomically: once start has scheduled
\* them, at every instant, during a reschedule call and after it, each of
\* recalc, control and telemetry is in the schedule exactly once (never
\* absent, never with an old and a new interval together).
C22_RescheduleAtomic ==
    StartReturned =>
        \A id \in JobIds : Cardinality({j \in Val(sched).jobs : j.id = id}) = 1

\* C23: once start has returned state.latest_plan is set, and no control
\* execution ever runs while the plan is missing.
C23_PlanAfterStart ==
    /\ StartReturned => latest_plan # None
    /\ (\E e \in inflight : e.job = "control") => latest_plan # None

\* C24: once shutdown has returned no execution starts any more; the
\* shutdown step itself stops the scheduler and leaves the executions in
\* flight as they are: it neither waits for them nor ends them.
C24_ShutdownStopsFirings ==
    [][/\ app = "stopped" => inflight' \subseteq inflight
       /\ (app # "stopped" /\ app' = "stopped") =>
              /\ inflight' = inflight
              /\ Val(sched').state = "shutdown"]_vars

\* C24 witness: shutdown has returned while an execution that the scheduler
\* started is in flight and the jobs are still in the store.
C24_Witness ==
    /\ app = "stopped"
    /\ Val(sched).state = "shutdown"
    /\ \E e \in inflight : e.via = "scheduler"
    /\ Val(sched).jobs # {}

\* C26: a provider failure never makes the recalc job callback raise: no
\* execution of recalc_job ends with an exception and on_startup is not
\* ended by one.
C26_RecalcNeverRaises ==
    /\ "recalc" \notin Val(sched).job_errors
    /\ app # "recalc_raised"

\* ----------------------------------------------------- SpecRecalc: claims
\* C25: when the price provider or the forecast provider raises during a
\* recalculation, state.latest_plan and state.last_recalc_at have exactly the
\* values they had before that recalculation started.
C25_PreviousPlanRetained ==
    (rj # None /\ Val(rj).pc = "raised") =>
        /\ latest_plan = Val(rj).before.latest_plan
        /\ last_recalc_at = Val(rj).before.last_recalc_at

\* C25 witness: a recalculation that started after an earlier one had
\* published ended with a provider exception, and the earlier plan is there.
C25_Witness ==
    /\ rj # None
    /\ Val(rj).pc = "raised"
    /\ latest_plan # None
    /\ last_recalc_at # None
    /\ Val(rj).now > Val(last_recalc_at)

\* C27: every settings value a recalculation uses comes from the snapshot it
\* took under the lock: the horizon of the fetch range, and the window and
\* the horizon build_plan works with.
C27_OneSnapshot ==
    rj # None =>
        /\ Val(rj).horizon_hours = Val(rj).settings_snapshot.planning_horizon_hours
        /\ Val(rj).plan # None =>
              /\ Val(Val(rj).plan).planning_window_seconds =
                     Val(rj).settings_snapshot.planning_window_seconds
              /\ Val(Val(rj).plan).horizon_hours =
                     Val(rj).settings_snapshot.planning_horizon_hours

\* The settings that select the price provider.
ProviderKey(s) == <<s.price_provider, s.tibber_token, s.tibber_home_id>>

\* C29: state.price_provider is replaced by another instance only in a step
\* that changes the provider selection, the Tibber token or the Tibber home
\* id; while the instance stays its cache entry stays, and a recalculation
\* that finds the entry makes no upstream request.
C29_ProviderInstanceKept ==
    [][/\ Val(price_provider').id # Val(price_provider).id =>
              ProviderKey(Val(settings')) # ProviderKey(Val(settings))
       /\ (Val(price_provider').id = Val(price_provider).id /\ Val(price_provider).cached) =>
              Val(price_provider').cached
       /\ (RecalcAt("fetch") /\ rj' # rj /\ Val(price_provider).cached
           /\ Val(rj).provider_to_use.id = Val(price_provider).id) =>
              ~Val(rj').requested]_vars

\* C29 witness: after a configuration update that left selection, token and
\* home id alone, a second recalculation has run to its end on the first
\* Tibber instance and was answered from its cache.
C29_Witness ==
    /\ rj # None
    /\ Val(rj).pc = "done"
    /\ ~Val(rj).requested
    /\ Val(rj).before.latest_plan # None
    /\ Val(price_provider).class = "TibberPriceProvider"
    /\ Val(price_provider).id = 1
    /\ Val(price_provider).cached
    /\ Val(rj).settings_snapshot # Val(planner).settings

\* C31: for every scheduled job whose interval is >= 1 second, the jitter of
\* its trigger is at most 10% of the interval, at most the fixed cap (15 s
\* for recalc, 2 s for control and telemetry), non-negative and strictly
\* less than the interval.
C31_JitterBounded ==
    sched # None =>
        \A j \in Val(sched).jobs \cup {Val(sched).todo[i] : i \in DOMAIN Val(sched).todo} :
            j.interval >= 1 =>
                /\ j.jitter * 10 <= j.interval
                /\ j.jitter <= (IF j.id = "recalc" THEN 15 ELSE 2)
                /\ j.jitter >= 0
                /\ j.jitter < j.interval

\* C31 witness: the three jobs are scheduled and a control execution is in
\* flight; one job has the cap as its jitter though 10% of its interval is
\* more, another has 10% of its interval, below its cap.
C31_Witness ==
    /\ sched # None
    /\ Val(sched).todo = <<>>
    /\ \E j \in Val(sched).jobs :
           /\ j.jitter = (IF j.id = "recalc" THEN 15 ELSE 2)
           /\ j.interval \div 10 > j.jitter
    /\ \E j \in Val(sched).jobs :
           /\ j.jitter = j.interval \div 10
           /\ j.jitter > 0
           /\ j.jitter < (IF j.id = "recalc" THEN 15 ELSE 2)
    /\ \E e \in inflight : e.job = "control"

\* C32: with the D-Bus executor, once POST /pause has returned (its write of
\* 0 accepted by the bus) and no control tick is in flight any more, the
\* actuator setpoint is 0 for as long as automation stays paused.
C32_PausedSetpointZero ==
    ( /\ pc # <<>>
      /\ Val(executor).kind = "dbus"
      /\ automation_paused
      /\ app = "serving"
      /\ pc["api"] = "idle"
      /\ local["api"].reset = "ok"
      /\ pc["control_job"] = "idle" )
    => actuator = 0

\* C33: with the D-Bus executor, after on_shutdown has run (its write of 0
\* accepted by the bus) and the control tick that was in flight has
\* finished, the last value written to the actuator is 0.
C33_ShutdownSetpointZero ==
    ( /\ pc # <<>>
      /\ Val(executor).kind = "dbus"
      /\ app = "stopped"
      /\ pc["api"] = "idle"
      /\ local["api"].reset = "ok"
      /\ pc["control_job"] = "idle" )
    => applied = Some(0)

C35_ConfigAllOrNothing ==
    (cfg # None /\ sched # None /\ Val(cfg).outcome = "raised") =>
        /\ settings = Some(Val(cfg).before)
        /\ Val(sched).jobs = Val(cfg).jobs_before

\* C36: state.latest_plan.generated_at and state.last_recalc_at are equal
\* once set and never decrease: a Plan computed from an earlier `now` never
\* replaces a Plan computed from a later `now`, also when recalculations
\* (the recalc job, POST /recalc) overlap.
C36_PlanTimeMonotone ==
    [][ /\ (latest_plan' # None) = (last_recalc_at' # None)
        /\ latest_plan' # None => Val(latest_plan').generated_at = Val(last_recalc_at')
        /\ (latest_plan # None /\ latest_plan' # None) =>
              Val(latest_plan').generated_at >= Val(latest_plan).generated_at
        /\ (last_recalc_at # None /\ last_recalc_at' # None) =>
              Val(last_recalc_at') >= Val(last_recalc_at)
      ]_vars

\* The ticks the ramp needs from the setpoint w to the target t with steps of
\* at most max_delta: ceil(|t - w| / max_delta).
ClaimTicksLeft(w, t, max_delta) == (Abs(t - w) + max_delta - 1) \div max_delta

\* C37: with a ramp configured, a control tick whose writes succeed, coming
\* after a tick that wrote `previous`, writes a value between `previous` and
\* the slot's clamped target (no overshoot, never away from the target) and
\* leaves exactly one tick less to go, ceil(|target - previous| / (ramp *
\* interval)) ticks in all; at the target it writes the target again.
C37_RampConverges ==
    [][( /\ ControlStep
         /\ Val(settings).grid_ramp_w_per_second # None
         /\ Val(executor).kind = "dbus"
         /\ Val(executor).last_setpoint_w # None
         /\ applied = Val(executor).last_setpoint_w
         /\ Val(call').outcome = "applied"
         /\ Val(call').writes # <<>> )
       => LET previous == Val(applied)
              target == clamp_target(Val(settings), Val(ResolvedSlot).target_grid_setpoint_w)
              max_delta == Val(Val(settings).grid_ramp_w_per_second)
                               * Val(settings).dbus_update_interval_seconds
              written == Val(applied')
          IN  /\ \A i \in DOMAIN Val(call').writes : Val(call').writes[i] = written
              /\ Min(previous, target) <= written
              /\ written <= Max(previous, target)
              /\ ClaimTicksLeft(written, target, max_delta)
                     = Max(0, ClaimTicksLeft(previous, target, max_delta) - 1)
              /\ Val(executor').last_setpoint_w = Some(written)
      ]_vars

\* C37 witness: two ramped ticks in a row.  With a ramp of 1000 W per tick
\* the executor had written 2000 W for a charging slot; the slot now asks for
\* export (clamped target -1000 W) and the setpoint has come down to 0 W, one
\* more tick away from the target.
C37_Witness ==
    /\ call # None
    /\ Val(call).outcome = "applied"
    /\ Val(call).failure = "none"
    /\ Val(settings).grid_ramp_w_per_second = Some(100)
    /\ Val(call).action = Some(EXPORT_TO_GRID)
    /\ Val(call).target = Some(0)
    /\ applied = Some(0)
    /\ Val(executor).last_setpoint_w = Some(0)
    /\ ResolvedSlot # None
    /\ clamp_target(Val(settings), Val(ResolvedSlot).target_grid_setpoint_w) = 0 - 1000

\* C38: DbusExecutor.apply_setpoint always terminates, whatever the bus does:
\* every call returns or raises, having attempted the connection at most
\* 1 + dbus_write_retries times and the initial write at most
\* 1 + dbus_write_retries times, and having read back at most
\* dbus_reassert_attempts times in the verify loop (and once more after it).
C38_ApplyTerminates ==
    /\ <>(pc["control_job"] \in {"returned", "raised"})
    /\ [](LET l == local["control_job"]
          IN  /\ l.connects <= 1 + Val(settings).dbus_write_retries
              /\ l.sets <= 1 + Val(settings).dbus_write_retries
              /\ l.gets <= Val(settings).dbus_reassert_attempts
              /\ l.final_gets <= 1)

\* C38 witness: a call that returned after using up every bound: the
\* connection succeeded at the last attempt, the write at the last attempt,
\* and every read-back of the loop mismatched.
C38_Witness ==
    /\ pc # <<>>
    /\ DOMAIN pc = {"control_job"}
    /\ pc["control_job"] = "returned"
    /\ Val(settings).dbus_write_retries = MaxRetries
    /\ Val(settings).dbus_reassert_attempts = MaxReassert
    /\ local["control_job"].connects = 1 + MaxRetries
    /\ local["control_job"].sets = 1 + MaxRetries
    /\ local["control_job"].gets = MaxReassert
    /\ local["control_job"].final_gets = 1

\* C39: build_plan called with an empty price series returns a plan in which
\* every slot is IDLE with setpoint 0, whatever the (valid) settings.
C39_NoPricesAllIdle ==
    (plan # None /\ pIn # None /\ Val(pIn).price_series = <<>>) =>
        \A i \in DOMAIN Val(plan).slots :
            /\ Val(plan).slots[i].action = IDLE
            /\ Val(plan).slots[i].target_grid_setpoint_w = 0

\* The next step of thread t takes state.lock.
ClaimWaiting(t) == pc[t] # Idle /\ Program(pc[t].op)[pc[t].i].lock = "acquire"
\* The next step of thread t fetches from a provider.
ClaimFetching(t) == pc[t] # Idle /\ Has(Program(pc[t].op)[pc[t].i], "fetch", "price_provider")

\* C40: the jobs and the API handlers never deadlock on state.lock: the
\* thread that holds the lock is in the middle of an operation and its next
\* step does not wait for the lock, so it reaches its release; and a thread
\* whose provider fetch is in progress does not hold the lock, so a control
\* tick is never kept waiting by a fetch.
C40_DeadlockFree ==
    pc # <<>> =>
        /\ lock # None => (pc[Val(lock)] # Idle /\ ~ClaimWaiting(Val(lock)))
        /\ \A t \in Threads : ClaimFetching(t) => lock # Some(t)
        /\ (\A t \in Threads : pc[t] = Idle) => lock = None

\* C40 witness: the recalc job's fetch is in progress; after it started, the
\* control job ran a whole tick against the plan published earlier; an API
\* request waits for the lock, which the telemetry job holds.
C40_Witness ==
    /\ pc # <<>>
    /\ ClaimFetching("recalc_job")
    /\ pc["control_job"] = Idle
    /\ latest_plan # None
    /\ last_control_at # None
    /\ local["recalc_job"].now # None
    /\ Val(latest_plan).generated_at < Val(local["recalc_job"].now)
    /\ Val(local["recalc_job"].now) < Val(last_control_at)
    /\ ClaimWaiting("api")
    /\ lock = Some("telemetry_job")

====
